---- MODULE Spec2Model ----
(***************************************************************************)
(* Verification model of the httpio resilience layer.                      *)
(*                                                                         *)
(* Two circuit breakers exist in the repository and both are modelled:     *)
(*   "pkg" : the standalone breaker with Execute/allowRequest/recordResult *)
(*           (src/unnamed/part_006), one mutex around every operation,     *)
(*           observer called synchronously from setState;                  *)
(*   "mw"  : the middleware breaker with processRequest/processResponse    *)
(*           (src/unnamed/part_021), state read under RLock, decisions     *)
(*           taken later under Lock, observer started with `go`.           *)
(* The variable impl says which of the two a behaviour exercises           *)
(* (specification SpecBreaker).                                            *)
(*                                                                         *)
(* The retry middleware (src/internal/middleware/retry/retry.go) is        *)
(* modelled as one request passing through Handle (specification           *)
(* SpecRetry).                                                             *)
(***************************************************************************)
EXTENDS Integers, Sequences, FiniteSets, TLC

(* ------------------------------ bounds --------------------------------- *)
NumCallers == 2
MaxThreshold == 2
MaxHalfOpen == 2
MaxTimeout == 1
MaxPending == 2

Callers == 1..NumCallers

(* ------------------------ program constants ---------------------------- *)
StateClosed == 0
StateOpen == 1
StateHalfOpen == 2

(***************************************************************************)
(* Time.  The breakers read their time stamps only through               *)
(* time.Since(stamp) compared with RecoveryTimeout, so a stamp is kept as  *)
(* the time that has passed since it was taken: 0 when it is set to        *)
(* time.Now(), one more at every tick of the clock, and no more than Far,  *)
(* the first duration that is longer than every RecoveryTimeout.           *)
(***************************************************************************)
Far == MaxTimeout + 1

\* time.Time{}: longer ago than any timeout
ZeroTime == Far

\* time.Now()
Now == 0

\* time.Since(t)
Since(t) == t

\* the stamp t one tick later
Later(t) == IF t < Far THEN t + 1 ELSE t

VARIABLES
    impl,          \* "pkg" | "mw": the breaker under execution
    config,        \* FailureThreshold, RecoveryTimeout, HalfOpenMaxCalls, observer
    cb,            \* part_006 CircuitBreaker: state, failureCount, lastFailureAt, halfOpenCount
    mutex,         \* part_006 cb.mutex: "free" or the method that holds it for ever
    mcb,           \* part_021 CircuitBreaker: state, consecutiveErrors, lastAttempt, halfOpenCalls
    calls,         \* per caller: pc, admittedIn, afterReopen
    pending,       \* part_021: number of observer goroutines started with `go` and not yet run
    inOrder,       \* history: every notification received was that of the earliest state change not yet notified
    obsUnderLock,  \* history: the observer was called by a goroutine holding the mutex
    hoAdmitted,    \* history: calls admitted since the breaker entered HalfOpen
    streak,        \* history: failures recorded while Closed since the last success
    reopened,      \* history: a failure has been recorded while HalfOpen
    reopenedAt,    \* history: time of the last failure recorded while HalfOpen
    resetSince,    \* history: Reset() was called, and after the last reopening
    lastFail,      \* history: time of the last failure recorded
    ev             \* history: the operation that made the last step

bvars == <<impl, config, cb, mutex, mcb, calls, pending, inOrder,
           obsUnderLock, hoAdmitted, streak, reopened, reopenedAt, resetSince,
           lastFail, ev>>

VARIABLES
    rconfig,       \* retry.Config: MaxRetries, RetryableStatusCodes, ErrorPredicate
    rreq,          \* the request: hasBody (Body != nil), hasGetBody (GetBody != nil)
    rctx,          \* the caller's context: hasDeadline, done
    rpc,           \* "start" | "wait" (in the backoff select) | "done"
    attempt,       \* the loop variable of Handle
    last,          \* lastResp, lastErr
    ret,           \* what Handle returned
    nextCalls,     \* number of calls of the wrapped handler next
    doCalls,       \* number of calls of client.Do on http.DefaultTransport
    waits,         \* number of backoff waits that ran to their end
    first,         \* history: the result of the first attempt
    allRetryable,  \* history: every attempt so far returned a retryable result
    rexit,         \* history: the return statement Handle left by
    rimpl,         \* "middleware" (retry.go) or "client" (internal/client/retry.go)
    bodySent       \* history: the body of the attempt sent last:
                   \* "none" | "fresh" | "spent" (read by an earlier attempt)

rvars == <<rconfig, rreq, rctx, rpc, attempt, last, ret, nextCalls, doCalls,
           waits, first, allRetryable, rexit, rimpl, bodySent>>

VARIABLES
    backoff,       \* the arguments of a backoff computation (config, attempt, draw)
    waited         \* its result: [done, delay]

kvars == <<backoff, waited>>

VARIABLES
    middlewares,   \* [client, request, all]: the client's and the request's
                   \* middlewares, and the list buildMiddlewareChain made of them
    handler,       \* Chain's handler: the middlewares wrapped so far, outermost first
    chainI,        \* Chain's loop variable i, counted from 1
    chainPc,       \* "new" | "chain" | "call" | "return" | "done"
    depth,         \* the number of middlewares the running call is inside of
    trace          \* history: the steps run, in order

hvars == <<middlewares, handler, chainI, chainPc, depth, trace>>

VARIABLES
    store,         \* "memory" | "disk" | "off": the Cache implementation in use
    now,           \* time.Now(), in ticks
    capacity,      \* MemoryCache.capacity
    data,          \* MemoryCache.data: key -> list element (0: no entry)
    lruList,       \* MemoryCache.lruList: list elements, front first
    elements,      \* the cacheEntry of each list element: [key, response]
    heap,          \* the CachedResponse objects the store or a caller points to
    getCall,       \* per caller, a Get between its two critical sections
    got,           \* per caller, the *CachedResponse its last Get returned (0: nil)
    index,         \* DiskCache.index: key -> filename
    files,         \* the cache directory: filename -> file
    setCall,       \* the DiskCache.Set that holds c.mutex: [pc, key, response]
    delCall,       \* a DiskCache.Delete between its index and its file step
    currentSize,   \* DiskCache.currentSize
    maxDiskSize,   \* DiskCache.maxDiskSize
    interrupted,   \* history: the keys whose Set the process ended in, before
                   \* the rename
    stored,        \* history: per key, the entry its last Set was given
    intact,        \* history: per key, nothing touched the key since that Set
    recent,        \* history: the keys held, most recently used first
    cev            \* history: what the last store operation did

mcvars == <<capacity, data, lruList, elements, heap, getCall, got>>

dcvars == <<index, files, setCall, delCall, currentSize, maxDiskSize,
            interrupted>>

cvars == <<store, now, mcvars, dcvars, stored, intact, recent, cev>>


\* the cleanup task of a cache store (part_020:942-955, 1170-1183)
VARIABLES
    swept,         \* "memory" | "disk" | "off": the store that has the task
    swEntries,       \* key -> "none" | "fresh" | "expired": what the store holds
    isNil,         \* MemoryCache: c.data and c.lruList are nil (after Close)
    closed,        \* Close() has returned
    task,          \* the goroutine of StartCleanupTask:
                   \* "none" | "waiting" | "cleanup" | "panicked"
    tickerC        \* the ticks waiting in ticker.C (a channel of capacity 1)

tvars == <<swept, swEntries, isNil, closed, task, tickerC>>


\* the cache middleware (src/middleware/headers/header.go)
VARIABLES
    mwConfig,      \* Config: Enabled, RespectCacheControl, KeyStrategy, and the
                   \* Cache implementation behind m.cache
    mwNow,         \* time.Now(), in ticks
    mwCache,       \* m.cache: key -> CachedResponse (NoCached when absent)
    responses,     \* the http.Response objects: pointer -> [StatusCode, Body],
                   \* Body being what is left to read of its reader
    handles,       \* caller -> the call of the handler it is in, with what the
                   \* call has done so far
    sets,          \* the goroutines "go m.cache.Set(...)" that have not run yet
    made           \* the number of calls of the handler begun so far

wvars == <<mwConfig, mwNow, mwCache, responses, handles, sets, made>>


\* the stream decoders (internal/client/stream.go, and the stream
\* package's StreamJSON and streamSSE)
VARIABLES
    decoder,       \* the decoder that runs: "StreamSSE" | "streamSSE" |
                   \* "Stream" | "StreamLines" | "StreamJSON" | "off"
    lifecycle,     \* the handler is an EventSourceFullHandler
    scanned,       \* the number of lines (chunks) read from the body
    ssePc,         \* "open": before OnOpen | "scan": in the loop | "returned"
    sse,           \* the fields kept between lines: Event, ID, Retry
    sseData,       \* data (strings.Builder or string), as characters
    hasData,       \* streamSSE's hasData
    out,           \* the events the last step handed to the handler
    sseSeen,       \* what the lines read since the last dispatch hold, by the
                   \* field grammar: fields, validRetry; and dataValues,
                   \* the values of the data lines since the last blank line
    handed,        \* the chunk or line the last step handed to the handler
    handled,       \* what the handler returned in the last step, "none"
                   \* when the step did not call it
    sseRet,        \* what the decoder returned, "none" while it runs
    onClose        \* OnClose has run

evars == <<decoder, lifecycle, scanned, ssePc, sse, sseData, hasData, out,
           sseSeen, handed, handled, sseRet, onClose>>


\* a sweep of the DiskCache cleanup task, step by step
VARIABLES
    sweepCall      \* the DiskCache.cleanup that runs: [pc, todo, key,
                   \* removedSize, now], todo being the part of its copy of
                   \* the index it has not checked yet

dsvars == <<sweepCall>>

vars == <<bvars, rvars, kvars, hvars, cvars, tvars, wvars, evars, dsvars>>

\* what a step of the breakers leaves alone
nonBreaker == <<rvars, kvars, hvars, cvars, tvars, wvars, evars, dsvars>>

\* what a step of the retry middleware leaves alone
nonRetry == <<bvars, kvars, hvars, cvars, tvars, wvars, evars, dsvars>>

\* what a backoff computation leaves alone
nonBackoff == <<bvars, rvars, hvars, cvars, tvars, wvars, evars, dsvars>>

\* what a step of the middleware chain leaves alone
nonChain == <<bvars, rvars, kvars, cvars, tvars, wvars, evars, dsvars>>

\* what a step of a cache store leaves alone
nonCache == <<bvars, rvars, kvars, hvars, tvars, wvars, evars, dsvars>>

nonSweep == <<bvars, rvars, kvars, hvars, cvars, wvars, evars, dsvars>>

nonMw == <<bvars, rvars, kvars, hvars, cvars, tvars, evars, dsvars>>

nonSSE == <<bvars, rvars, kvars, hvars, cvars, tvars, wvars, dsvars>>

nonDiskSweep == <<bvars, rvars, kvars, hvars, cvars, tvars, wvars, evars>>

Observers == {"none", "log", "reenter"}

Configs == [FailureThreshold : 1..MaxThreshold,
            RecoveryTimeout  : 1..MaxTimeout,
            HalfOpenMaxCalls : 1..MaxHalfOpen,
            observer         : Observers]

\* op: the operation; from: breaker state before the step; seen: the state
\* the caller read when it arrived ("admit", "reject"); res: the recorded
\* result is a failure ("record"); adm: the state the recording call was
\* admitted in ("record"); late: the call arrived after the last reopening
\* ("admit")
Event(op, from, seen, res, adm, late) ==
    [op |-> op, from |-> from, seen |-> seen, res |-> res, adm |-> adm,
     late |-> late]

Admitted(from, seen, late) == Event("admit", from, seen, FALSE, StateClosed, late)

Rejected(from, seen) == Event("reject", from, seen, FALSE, StateClosed, FALSE)

Recorded(from, isFailure, adm) == Event("record", from, from, isFailure, adm, FALSE)

\* a step of another kind
Quiet(from) == Event("quiet", from, from, FALSE, StateClosed, FALSE)

NoCall == [pc |-> "idle", admittedIn |-> StateClosed, afterReopen |-> FALSE]

\* NewCircuitBreaker (part_006:432-447)
NewCircuitBreaker ==
    [state |-> StateClosed, failureCount |-> 0, lastFailureAt |-> ZeroTime,
     halfOpenCount |-> 0]

\* NewCircuitBreaker (part_021:169-194)
NewMwCircuitBreaker ==
    [state |-> StateClosed, consecutiveErrors |-> 0, lastAttempt |-> ZeroTime,
     halfOpenCalls |-> 0]

BreakerInit ==
    /\ impl \in {"pkg", "mw"}
    /\ config \in Configs
    \* an observer started with `go` holds no lock: whether it re-enters the
    \* breaker makes no difference to part_021, one of the two is kept
    /\ impl = "mw" => config.observer # "log"
    \* part_006 is built without an observer; OnStateChange sets it
    /\ impl = "pkg" => config.observer = "none"
    /\ cb = NewCircuitBreaker
    /\ mutex = "free"
    /\ mcb = NewMwCircuitBreaker
    /\ calls = [c \in Callers |-> NoCall]
    /\ pending = 0
    /\ inOrder = TRUE
    /\ obsUnderLock = FALSE
    /\ hoAdmitted = 0
    /\ streak = 0
    /\ reopened = FALSE
    /\ reopenedAt = ZeroTime
    /\ resetSince = FALSE
    /\ lastFail = ZeroTime
    /\ ev = Quiet(StateClosed)

(* ----------------------------- the clock ------------------------------- *)
Tick ==
    /\ UNCHANGED nonBreaker
    /\ cb' = [cb EXCEPT !.lastFailureAt = Later(@)]
    /\ mcb' = [mcb EXCEPT !.lastAttempt = Later(@)]
    /\ lastFail' = Later(lastFail)
    /\ reopenedAt' = Later(reopenedAt)
    /\ ev' = Quiet(IF impl = "pkg" THEN cb.state ELSE mcb.state)
    /\ UNCHANGED <<impl, config, mutex, calls, pending, inOrder, obsUnderLock,
                   hoAdmitted, streak, reopened, resetSince>>

(* ------------------------ observer notification ------------------------ *)
\* The observer receives the (from, to) of the state change that called it.
\* oldest: the call is that of the earliest state change not yet notified.
Receive(oldest) == inOrder' = (inOrder /\ oldest)

\* The callback part of setState (part_006:547-550, called with cb.mutex
\* held), of transitionState (part_021:106-108, `go`), and of the two Reset
\* methods.  sync says whether the callback runs in the calling goroutine.
Notify(from, to, sync) ==
    IF from = to \/ config.observer = "none"
    THEN UNCHANGED <<inOrder, pending, obsUnderLock>>
    ELSE IF sync
         THEN /\ Receive(TRUE)
              /\ obsUnderLock' = TRUE
              /\ UNCHANGED pending
         ELSE /\ pending' = pending + 1
              /\ UNCHANGED <<inOrder, obsUnderLock>>

\* The synchronous callback re-enters the breaker (GetState, Reset): it asks
\* for the mutex its own goroutine holds, and sync.RWMutex is not reentrant.
CallbackReturns == config.observer # "reenter"

Blocks(from, to) == from # to /\ ~CallbackReturns

(* ------------------------------ history -------------------------------- *)
\* hoAdmitted counts up to one more than the largest HalfOpenMaxCalls
AdmitHistory(entered, stateAfter) ==
    hoAdmitted' = IF entered THEN 1
                  ELSE IF stateAfter = StateHalfOpen /\ hoAdmitted <= MaxHalfOpen
                       THEN hoAdmitted + 1
                       ELSE hoAdmitted

RecordHistory(c, from, to, isFailure) ==
    /\ hoAdmitted' = IF to = StateHalfOpen THEN hoAdmitted ELSE 0
    /\ lastFail' = IF isFailure THEN Now ELSE lastFail
    /\ streak' = IF from = StateClosed
                 THEN (IF isFailure THEN streak + 1 ELSE 0)
                 ELSE IF to = StateClosed THEN 0 ELSE streak
    /\ IF from = StateHalfOpen /\ isFailure
       THEN /\ reopened' = TRUE
            /\ reopenedAt' = Now
            /\ resetSince' = FALSE
       ELSE UNCHANGED <<reopened, reopenedAt, resetSince>>

\* calls after a step that recorded a result: the recording caller goes to
\* pcNext, and every call in flight arrived before a reopening made now
AfterRecord(c, pcNext, from, isFailure) ==
    [d \in Callers |->
        IF d = c /\ pcNext = "idle" THEN NoCall
        ELSE [pc |-> IF d = c THEN pcNext ELSE calls[d].pc,
              admittedIn |-> calls[d].admittedIn,
              afterReopen |-> IF from = StateHalfOpen /\ isFailure THEN FALSE
                              ELSE calls[d].afterReopen]]

\* RecoveryTimeout has passed since the last recorded failure
Elapsed == Since(lastFail) >= config.RecoveryTimeout

\* at most MaxPending observer goroutines wait to run: a step of part_021
\* that can start one waits until one of them has run
CanSpawn == pending < MaxPending

(* ================= the standalone breaker (part_006) =================== *)
\* setState (part_006:539-551), the assignment
setState(b, newState) == [b EXCEPT !.state = newState]

\* allowRequest (part_006:468-491), the value returned
allowRequestResult(b) ==
    CASE b.state = StateClosed -> TRUE
      [] b.state = StateOpen ->
            Since(b.lastFailureAt) >= config.RecoveryTimeout
      [] b.state = StateHalfOpen ->
            b.halfOpenCount < config.HalfOpenMaxCalls
      [] OTHER -> FALSE

\* allowRequest (part_006:468-491), the fields it leaves; what follows
\* setState runs only when the callback returns
allowRequestFields(b) ==
    CASE b.state = StateOpen /\ Since(b.lastFailureAt) >= config.RecoveryTimeout ->
            IF CallbackReturns
            THEN [setState(b, StateHalfOpen) EXCEPT !.halfOpenCount = 0]
            ELSE setState(b, StateHalfOpen)
      [] b.state = StateHalfOpen /\ b.halfOpenCount < config.HalfOpenMaxCalls ->
            [b EXCEPT !.halfOpenCount = b.halfOpenCount + 1]
      [] OTHER -> b

\* recordFailure (part_006:511-524)
recordFailure(b) ==
    LET t == [b EXCEPT !.lastFailureAt = Now] IN
    CASE t.state = StateClosed ->
            IF t.failureCount + 1 >= config.FailureThreshold
            THEN setState([t EXCEPT !.failureCount = t.failureCount + 1], StateOpen)
            ELSE [t EXCEPT !.failureCount = t.failureCount + 1]
      [] t.state = StateHalfOpen ->
            IF CallbackReturns
            THEN [setState(t, StateOpen) EXCEPT !.failureCount = config.FailureThreshold]
            ELSE setState(t, StateOpen)
      [] OTHER -> t

\* recordSuccess without the reset of the counter while Closed
recordSuccess_KeepsCount(b) ==
    CASE b.state = StateClosed -> b
      [] b.state = StateHalfOpen ->
            IF CallbackReturns
            THEN [setState(b, StateClosed) EXCEPT !.failureCount = 0,
                                                  !.halfOpenCount = 0]
            ELSE setState(b, StateClosed)
      [] OTHER -> b

\* recordSuccess (part_006:527-536)
recordSuccess(b) ==
    CASE b.state = StateClosed -> [b EXCEPT !.failureCount = 0]
      [] b.state = StateHalfOpen ->
            IF CallbackReturns
            THEN [setState(b, StateClosed) EXCEPT !.failureCount = 0,
                                                  !.halfOpenCount = 0]
            ELSE setState(b, StateClosed)
      [] OTHER -> b

\* Reset (part_006:574-587), the assignments
ResetFields(b) ==
    [b EXCEPT !.state = StateClosed, !.failureCount = 0, !.halfOpenCount = 0,
              !.lastFailureAt = ZeroTime]

\* OnStateChange (part_006:450-454)
OnStateChange(callback) ==
    /\ UNCHANGED nonBreaker
    /\ impl = "pkg"
    /\ mutex = "free"
    /\ callback # config.observer
    /\ config' = [config EXCEPT !.observer = callback]
    /\ ev' = Quiet(cb.state)
    /\ UNCHANGED <<impl, cb, mutex, mcb, calls, pending, inOrder, obsUnderLock,
                   hoAdmitted, streak, reopened, reopenedAt, resetSince, lastFail>>

\* Execute up to the call of fn (part_006:457-461) with allowRequest
allowRequest(c) ==
    /\ UNCHANGED nonBreaker
    /\ impl = "pkg"
    /\ mutex = "free"
    /\ calls[c].pc = "idle"
    /\ LET from == cb.state
           post == allowRequestFields(cb)
           ok == allowRequestResult(cb)
           late == reopened
           stuck == Blocks(from, post.state)
       IN /\ cb' = post
          /\ Notify(from, post.state, TRUE)
          /\ mutex' = IF stuck THEN "Execute" ELSE mutex
          /\ calls' = [calls EXCEPT ![c] =
                IF stuck \/ ok
                THEN [pc |-> IF stuck THEN "blocked" ELSE "fn",
                      admittedIn |-> post.state,
                      afterReopen |-> late]
                ELSE NoCall]
          /\ IF stuck
             THEN /\ ev' = Quiet(from)
                  /\ UNCHANGED hoAdmitted
             ELSE IF ok
             THEN /\ ev' = Admitted(from, from, late)
                  /\ AdmitHistory(from # StateHalfOpen /\ post.state = StateHalfOpen,
                                  post.state)
             ELSE /\ ev' = Rejected(from, from)
                  /\ UNCHANGED hoAdmitted
    /\ UNCHANGED <<impl, config, mcb, streak, reopened, reopenedAt, resetSince,
                   lastFail>>

\* Execute from the return of fn (part_006:462-464) with recordResult
recordResult(c) ==
    /\ UNCHANGED nonBreaker
    /\ impl = "pkg"
    /\ mutex = "free"
    /\ calls[c].pc = "fn"
    /\ \E err \in BOOLEAN :
        LET from == cb.state
            post == IF err THEN recordFailure(cb) ELSE recordSuccess(cb)
            stuck == Blocks(from, post.state)
        IN /\ cb' = post
           /\ Notify(from, post.state, TRUE)
           /\ mutex' = IF stuck THEN "Execute" ELSE mutex
           /\ calls' = AfterRecord(c, IF stuck THEN "blocked" ELSE "idle", from, err)
           /\ RecordHistory(c, from, post.state, err)
           /\ ev' = Recorded(from, err, calls[c].admittedIn)
    /\ UNCHANGED <<impl, config, mcb>>

\* Reset (part_006:574-587)
Reset ==
    /\ UNCHANGED nonBreaker
    /\ impl = "pkg"
    /\ mutex = "free"
    /\ LET from == cb.state
           post == ResetFields(cb)
       IN /\ cb' = post
          /\ Notify(from, post.state, TRUE)
          /\ mutex' = IF Blocks(from, post.state) THEN "Reset" ELSE mutex
          /\ ev' = Event("reset", from, from, FALSE, StateClosed, FALSE)
    /\ streak' = 0
    /\ resetSince' = TRUE
    /\ hoAdmitted' = 0
    /\ UNCHANGED <<impl, config, mcb, calls, reopened, reopenedAt, lastFail>>

(* ================= the middleware breaker (part_021) =================== *)
\* what the wrapped handler can return: status 0 stands for a nil response
Results == {[status |-> 200, err |-> FALSE],
            [status |-> 500, err |-> FALSE],
            [status |-> 0, err |-> TRUE]}

\* defaultErrorPredicate (part_021:76-84)
defaultErrorPredicate(r) == r.err \/ (r.status # 0 /\ r.status >= 500)

\* transitionState (part_021:98-109), the assignment
transitionState(b, newState) == [b EXCEPT !.state = newState]

\* processRequest, `case StateOpen`, the critical section (part_021:217-222)
processRequestOpenFields(b) ==
    IF b.state = StateOpen
    THEN [transitionState(b, StateHalfOpen) EXCEPT !.halfOpenCalls = 0]
    ELSE b

\* processRequest, `case StateHalfOpen`, the value returned (part_021:231-233)
processRequestHalfOpenResult(b) == ~(b.halfOpenCalls >= config.HalfOpenMaxCalls)

\* processRequest, `case StateHalfOpen`, the fields (part_021:231-234)
processRequestHalfOpenFields(b) ==
    IF b.halfOpenCalls >= config.HalfOpenMaxCalls
    THEN b
    ELSE [b EXCEPT !.halfOpenCalls = b.halfOpenCalls + 1]

\* processResponse with a success in HalfOpen that never closes the circuit
processResponseFields_StaysHalfOpen(b, isFailure) ==
    LET t == [b EXCEPT !.lastAttempt = Now] IN
    CASE t.state = StateClosed ->
            IF isFailure
            THEN IF t.consecutiveErrors + 1 >= config.FailureThreshold
                 THEN transitionState(
                        [t EXCEPT !.consecutiveErrors = t.consecutiveErrors + 1],
                        StateOpen)
                 ELSE [t EXCEPT !.consecutiveErrors = t.consecutiveErrors + 1]
            ELSE [t EXCEPT !.consecutiveErrors = 0]
      [] t.state = StateHalfOpen ->
            IF isFailure
            THEN transitionState(t, StateOpen)
            ELSE [t EXCEPT !.consecutiveErrors = 0]
      [] OTHER -> t

\* processResponse (part_021:241-277), the fields
processResponseFields(b, isFailure) ==
    LET t == [b EXCEPT !.lastAttempt = Now] IN
    CASE t.state = StateClosed ->
            IF isFailure
            THEN IF t.consecutiveErrors + 1 >= config.FailureThreshold
                 THEN transitionState(
                        [t EXCEPT !.consecutiveErrors = t.consecutiveErrors + 1],
                        StateOpen)
                 ELSE [t EXCEPT !.consecutiveErrors = t.consecutiveErrors + 1]
            ELSE [t EXCEPT !.consecutiveErrors = 0]
      [] t.state = StateHalfOpen ->
            IF isFailure
            THEN transitionState(t, StateOpen)
            ELSE IF t.halfOpenCalls >= config.HalfOpenMaxCalls
                 THEN transitionState([t EXCEPT !.consecutiveErrors = 0], StateClosed)
                 ELSE [t EXCEPT !.consecutiveErrors = 0]
      [] OTHER -> t

\* Reset (part_021:126-138), the assignments
MwResetFields(b) ==
    [b EXCEPT !.state = StateClosed, !.consecutiveErrors = 0, !.halfOpenCalls = 0]

\* processRequest: the read of the state under RLock and, for Closed, the
\* return (part_021:210-214, 237)
processRequestRead(c) ==
    /\ UNCHANGED nonBreaker
    /\ impl = "mw"
    /\ calls[c].pc = "idle"
    /\ LET seen == mcb.state
           late == reopened
       IN /\ calls' = [calls EXCEPT ![c] =
                [pc |-> CASE seen = StateClosed -> "next"
                          [] seen = StateOpen -> "sawOpen"
                          [] OTHER -> "sawHalfOpen",
                 admittedIn |-> seen,
                 afterReopen |-> late]]
          /\ ev' = IF seen = StateClosed
                   THEN Admitted(seen, seen, late)
                   ELSE Quiet(seen)
    /\ UNCHANGED <<impl, config, cb, mutex, mcb, pending, inOrder,
                   obsUnderLock, hoAdmitted, streak, reopened, reopenedAt,
                   resetSince, lastFail>>

\* processRequest, `case StateOpen`: the comparison of lastAttempt with the
\* clock, made without the lock (part_021:216, 223-225)
processRequestSince(c) ==
    /\ UNCHANGED nonBreaker
    /\ impl = "mw"
    /\ calls[c].pc = "sawOpen"
    /\ IF Since(mcb.lastAttempt) > config.RecoveryTimeout
       THEN /\ calls' = [calls EXCEPT ![c].pc = "openLock"]
            /\ ev' = Quiet(mcb.state)
       ELSE /\ calls' = [calls EXCEPT ![c] = NoCall]
            /\ ev' = Rejected(mcb.state, StateOpen)
    /\ UNCHANGED <<impl, config, cb, mutex, mcb, pending, inOrder,
                   obsUnderLock, hoAdmitted, streak, reopened, reopenedAt,
                   resetSince, lastFail>>

\* processRequest, `case StateOpen`: the critical section and the return
\* (part_021:217-222, 237)
processRequestOpen(c) ==
    /\ UNCHANGED nonBreaker
    /\ impl = "mw"
    /\ calls[c].pc = "openLock"
    /\ CanSpawn
    /\ LET from == mcb.state
           post == processRequestOpenFields(mcb)
       IN /\ mcb' = post
          /\ Notify(from, post.state, FALSE)
          /\ calls' = [calls EXCEPT ![c].pc = "next", ![c].admittedIn = post.state]
          /\ AdmitHistory(from # post.state, post.state)
          /\ ev' = Admitted(from, StateOpen, calls[c].afterReopen)
    /\ UNCHANGED <<impl, config, cb, mutex, streak, reopened, reopenedAt,
                   resetSince, lastFail>>

\* processRequest, `case StateHalfOpen` (part_021:227-237)
processRequestHalfOpen(c) ==
    /\ UNCHANGED nonBreaker
    /\ impl = "mw"
    /\ calls[c].pc = "sawHalfOpen"
    /\ LET from == mcb.state
           ok == processRequestHalfOpenResult(mcb)
       IN /\ mcb' = processRequestHalfOpenFields(mcb)
          /\ IF ok
             THEN /\ calls' = [calls EXCEPT ![c].pc = "next", ![c].admittedIn = from]
                  /\ AdmitHistory(FALSE, from)
                  /\ ev' = Admitted(from, StateHalfOpen, calls[c].afterReopen)
             ELSE /\ calls' = [calls EXCEPT ![c] = NoCall]
                  /\ UNCHANGED hoAdmitted
                  /\ ev' = Rejected(from, StateHalfOpen)
    /\ UNCHANGED <<impl, config, cb, mutex, pending, inOrder, obsUnderLock,
                   streak, reopened, reopenedAt, resetSince, lastFail>>

\* Handle: the wrapped handler returns and processResponse records its
\* result (part_021:204, 241-277)
processResponse(c) ==
    /\ UNCHANGED nonBreaker
    /\ impl = "mw"
    /\ calls[c].pc = "next"
    /\ CanSpawn
    /\ \E r \in Results :
        LET from == mcb.state
            isFailure == defaultErrorPredicate(r)
            post == processResponseFields(mcb, isFailure)
        IN /\ mcb' = post
           /\ Notify(from, post.state, FALSE)
           /\ calls' = AfterRecord(c, "idle", from, isFailure)
           /\ RecordHistory(c, from, post.state, isFailure)
           /\ ev' = Recorded(from, isFailure, calls[c].admittedIn)
    /\ UNCHANGED <<impl, config, cb, mutex>>

\* Reset (part_021:126-138)
MwReset ==
    /\ UNCHANGED nonBreaker
    /\ impl = "mw"
    /\ CanSpawn
    /\ LET from == mcb.state
           post == MwResetFields(mcb)
       IN /\ mcb' = post
          /\ Notify(from, post.state, FALSE)
          /\ ev' = Event("reset", from, from, FALSE, StateClosed, FALSE)
    /\ streak' = 0
    /\ resetSince' = TRUE
    /\ hoAdmitted' = 0
    /\ UNCHANGED <<impl, config, cb, mutex, calls, reopened, reopenedAt, lastFail>>

\* a goroutine started by `go c.onStateChange(oldState, newState)` runs
\* (part_021:107, 136); the scheduler picks the one started first or, when
\* there are several, another one
onStateChange(oldest) ==
    /\ UNCHANGED nonBreaker
    /\ impl = "mw"
    /\ pending > 0
    /\ ~oldest => pending > 1
    /\ pending' = pending - 1
    /\ Receive(oldest)
    /\ ev' = Quiet(mcb.state)
    /\ UNCHANGED <<impl, config, cb, mutex, mcb, calls, obsUnderLock,
                   hoAdmitted, streak, reopened, reopenedAt, resetSince, lastFail>>

BreakerNext ==
    \/ Tick
    \/ \E c \in Callers : allowRequest(c)
    \/ \E c \in Callers : recordResult(c)
    \/ Reset
    \/ \E callback \in Observers : OnStateChange(callback)
    \/ \E c \in Callers : processRequestRead(c)
    \/ \E c \in Callers : processRequestSince(c)
    \/ \E c \in Callers : processRequestOpen(c)
    \/ \E c \in Callers : processRequestHalfOpen(c)
    \/ \E c \in Callers : processResponse(c)
    \/ MwReset
    \/ \E oldest \in BOOLEAN : onStateChange(oldest)

(* ===================== the retry middleware ============================ *)
(* src/internal/middleware/retry/retry.go                                  *)
MaxRetriesBound == 2

\* a result (resp, err): status 0 stands for a nil response, "nil" for no
\* error; "ctx" is ctx.Err() and "body" the error of req.GetBody()
Statuses == {200, 408, 500, 503}

TransportErrors == {"temp", "fatal"}

AttemptResults ==
    [status : Statuses, err : {"nil"}] \cup [status : {0}, err : TransportErrors]

NoResult == [status |-> 0, err |-> "nil"]

\* ErrorPredicate: nil, the default `err != nil` (retry.go:59-61), or a
\* predicate that accepts the temporary error only
ErrorPredicates == {"nil", "default", "temporary"}

ErrorPredicate(pred, err) ==
    CASE pred = "default" -> err # "nil"
      [] pred = "temporary" -> err = "temp"
      [] OTHER -> FALSE

\* RetryableStatusCodes: the default list (retry.go:50-56) and a shorter one
StatusCodeLists == {{408, 500, 502, 503, 504}, {502, 503}}

RetryConfigs == [MaxRetries : 0..MaxRetriesBound,
                 RetryableStatusCodes : StatusCodeLists,
                 ErrorPredicate : ErrorPredicates]

\* shouldRetry (retry.go:147-155)
shouldRetry(cfg, r) ==
    IF r.err # "nil" /\ cfg.ErrorPredicate # "nil"
    THEN ErrorPredicate(cfg.ErrorPredicate, r.err)
    ELSE IF r.status = 0
         THEN FALSE
         ELSE r.status \in cfg.RetryableStatusCodes

\* Handle: the test made on the result of the first attempt (retry.go:86)
firstReturns(cfg, r) ==
    r.err = "nil" /\ r.status # 0 /\ ~shouldRetry(cfg, r)

\* Handle: the tests made on the result of a retry (retry.go:133-139)
retryReturns(cfg, r) ==
    \/ (r.status # 0 /\ r.status < 500 /\ r.err = "nil")
    \/ ~shouldRetry(cfg, r)

\* the classification the contract gives: an error that satisfies
\* errorPredicate, or a response whose status is in retryableStatusCodes
Retryable(cfg, r) ==
    \/ (r.err # "nil" /\ ErrorPredicate(cfg.ErrorPredicate, r.err))
    \/ (r.err = "nil" /\ r.status # 0 /\ r.status \in cfg.RetryableStatusCodes)

RetryInit ==
    /\ rimpl = "middleware"
    /\ bodySent = "none"
    /\ rconfig \in RetryConfigs
    /\ rreq \in [hasBody : BOOLEAN, hasGetBody : BOOLEAN]
    /\ rctx \in [hasDeadline : BOOLEAN, done : {FALSE}]
    /\ rpc = "start"
    /\ attempt = 0
    /\ last = NoResult
    /\ ret = NoResult
    /\ nextCalls = 0
    /\ doCalls = 0
    /\ waits = 0
    /\ first = NoResult
    /\ allRetryable = TRUE
    /\ rexit = "none"

\* return lastResp/err from the statement named by site
Return(r, site) ==
    /\ ret' = r
    /\ rexit' = site
    /\ rpc' = "done"

\* Handle: the first attempt, through next (retry.go:84-93, 142)
HandleFirst ==
    /\ UNCHANGED nonRetry
    /\ rimpl = "middleware"
    /\ rpc = "start"
    /\ bodySent' = IF rreq.hasBody THEN "fresh" ELSE "none"
    /\ \E r \in AttemptResults :
        /\ nextCalls' = nextCalls + 1
        /\ first' = r
        /\ last' = r
        /\ allRetryable' = Retryable(rconfig, r)
        /\ IF firstReturns(rconfig, r)
           THEN Return(r, "first")
           ELSE IF 0 < rconfig.MaxRetries
                THEN /\ rpc' = "wait"
                     /\ UNCHANGED <<ret, rexit>>
                ELSE Return(r, "exhausted")
    /\ UNCHANGED <<rimpl, rconfig, rreq, rctx, attempt, doCalls, waits>>

\* the caller's context is cancelled or reaches its deadline
ContextDone ==
    /\ UNCHANGED nonRetry
    /\ rpc # "done"
    /\ ~rctx.done
    /\ rctx' = [rctx EXCEPT !.done = TRUE]
    /\ UNCHANGED <<rimpl, bodySent, rconfig, rreq, rpc, attempt, last, ret,
                   nextCalls, doCalls, waits, first, allRetryable, rexit>>

\* the select that returns what the last attempt gave, error included
HandleCancelled_ReturnsLast ==
    /\ UNCHANGED nonRetry
    /\ rimpl = "middleware"
    /\ rpc = "wait"
    /\ rctx.done
    /\ Return(last, "cancelled")
    /\ UNCHANGED <<rimpl, bodySent, rconfig, rreq, rctx, attempt, last,
                   nextCalls, doCalls, waits, first, allRetryable>>

\* Handle: the backoff select takes `case <-ctx.Done()` (retry.go:99-101)
HandleCancelled ==
    /\ UNCHANGED nonRetry
    /\ rimpl = "middleware"
    /\ rpc = "wait"
    /\ rctx.done
    /\ Return([status |-> last.status, err |-> "ctx"], "cancelled")
    /\ UNCHANGED <<rimpl, bodySent, rconfig, rreq, rctx, attempt, last,
                   nextCalls, doCalls, waits, first, allRetryable>>

\* the retry loop that ends by returning what the first attempt gave
HandleDo_ReturnsFirst(expired, r) ==
    IF expired
    THEN /\ rctx' = [rctx EXCEPT !.done = TRUE]
         /\ Return([status |-> last.status, err |-> "ctx"], "deadline")
         /\ UNCHANGED <<attempt, last, doCalls, allRetryable, bodySent>>
    ELSE /\ doCalls' = doCalls + 1
         \* the body of the retry is the one req.GetBody() made
         /\ bodySent' = IF rreq.hasBody THEN "fresh" ELSE "none"
         /\ last' = r
         /\ allRetryable' = (allRetryable /\ Retryable(rconfig, r))
         /\ UNCHANGED rctx
         /\ IF retryReturns(rconfig, r)
            THEN /\ Return(r, "retry")
                 /\ UNCHANGED attempt
            ELSE /\ attempt' = attempt + 1
                 /\ IF attempt + 1 < rconfig.MaxRetries
                    THEN /\ rpc' = "wait"
                         /\ UNCHANGED <<ret, rexit>>
                    ELSE Return(first, "exhausted")

\* Handle: the deadline test and client.Do with the tests on its result
\* (retry.go:116-139), and the end of the loop (retry.go:93, 142)
HandleDo(expired, r) ==
    IF expired
    THEN /\ rctx' = [rctx EXCEPT !.done = TRUE]
         /\ Return([status |-> last.status, err |-> "ctx"], "deadline")
         /\ UNCHANGED <<attempt, last, doCalls, allRetryable, bodySent>>
    ELSE /\ doCalls' = doCalls + 1
         \* the body of the retry is the one req.GetBody() made
         /\ bodySent' = IF rreq.hasBody THEN "fresh" ELSE "none"
         /\ last' = r
         /\ allRetryable' = (allRetryable /\ Retryable(rconfig, r))
         /\ UNCHANGED rctx
         /\ IF retryReturns(rconfig, r)
            THEN /\ Return(r, "retry")
                 /\ UNCHANGED attempt
            ELSE /\ attempt' = attempt + 1
                 /\ IF attempt + 1 < rconfig.MaxRetries
                    THEN /\ rpc' = "wait"
                         /\ UNCHANGED <<ret, rexit>>
                    ELSE Return(r, "exhausted")

\* Handle: the backoff timer fires and the retry is made (retry.go:102-140);
\* BaseDelay is positive, so the timer fires only in a select that did not
\* find the context done
HandleRetry ==
    /\ UNCHANGED nonRetry
    /\ rimpl = "middleware"
    /\ rpc = "wait"
    /\ ~rctx.done
    /\ waits' = waits + 1
    /\ IF rreq.hasBody /\ rreq.hasGetBody
       THEN \E bodyErr \in BOOLEAN :
              IF bodyErr
              THEN /\ Return([status |-> last.status, err |-> "body"], "getbody")
                   /\ UNCHANGED <<rctx, attempt, last, doCalls, allRetryable,
                                  bodySent>>
              ELSE \E expired \in (IF rctx.hasDeadline THEN BOOLEAN ELSE {FALSE}) :
                     \E r \in AttemptResults : HandleDo(expired, r)
       ELSE IF rreq.hasBody
            THEN /\ Return(last, "nobody")
                 /\ UNCHANGED <<rctx, attempt, last, doCalls, allRetryable,
                                bodySent>>
            ELSE \E expired \in (IF rctx.hasDeadline THEN BOOLEAN ELSE {FALSE}) :
                   \E r \in AttemptResults : HandleDo(expired, r)
    /\ UNCHANGED <<rimpl, rconfig, rreq, nextCalls, first>>

(* ------------- the client's executor (internal/client/retry.go) -------- *)
\* RetryPolicy: DefaultRetryPolicy (config.go:49-51), or a policy that
\* retries errors only
RetryPolicies == {"default", "errors"}

RetryPolicy(policy, r) ==
    CASE policy = "default" -> r.err # "nil" \/ (r.status # 0 /\ r.status >= 500)
      [] OTHER -> r.err # "nil"

ClientRetryConfigs == [MaxRetries : 0..MaxRetriesBound, RetryPolicy : RetryPolicies]

ClientRetryInit ==
    /\ rimpl = "client"
    /\ bodySent = "none"
    /\ rconfig \in ClientRetryConfigs
    /\ rreq \in [hasBody : BOOLEAN, hasGetBody : BOOLEAN]
    /\ rctx \in [hasDeadline : BOOLEAN, done : {FALSE}]
    /\ rpc = "start"
    /\ attempt = 0
    /\ last = NoResult
    /\ ret = NoResult
    /\ nextCalls = 0
    /\ doCalls = 0
    /\ waits = 0
    /\ first = NoResult
    /\ allRetryable = TRUE
    /\ rexit = "none"

\* cloneRequest (internal/client/retry.go:75-83): req.Clone keeps the Body of
\* req, which the attempts before this one have read
cloneRequest(req, sent) ==
    IF ~req.hasBody THEN "none"
    ELSE IF sent = 0 THEN "fresh" ELSE "spent"

\* executeWithRetry: one turn of the loop from cloneRequest to the tests on
\* the result (internal/client/retry.go:18-33), attempt n of the loop
executeAttempt(n, r) ==
    /\ bodySent' = cloneRequest(rreq, doCalls)
    /\ doCalls' = doCalls + 1
    /\ last' = r
    /\ first' = IF doCalls = 0 THEN r ELSE first
    /\ allRetryable' = (allRetryable /\ RetryPolicy(rconfig.RetryPolicy, r))
    /\ attempt' = n
    /\ IF ~RetryPolicy(rconfig.RetryPolicy, r)
       THEN Return(r, "policy")
       ELSE IF n = rconfig.MaxRetries
            THEN Return(r, "exhausted")
            ELSE /\ rpc' = "wait"
                 /\ UNCHANGED <<ret, rexit>>

\* executeWithRetry: the first attempt
ExecuteFirst ==
    /\ UNCHANGED nonRetry
    /\ rimpl = "client"
    /\ rpc = "start"
    /\ \E r \in AttemptResults : executeAttempt(0, r)
    /\ UNCHANGED <<rimpl, rconfig, rreq, rctx, nextCalls, waits>>

\* executeWithRetry: the select takes `case <-ctx.Done()`
\* (internal/client/retry.go:42-47)
ExecuteCancelled ==
    /\ UNCHANGED nonRetry
    /\ rimpl = "client"
    /\ rpc = "wait"
    /\ rctx.done
    /\ Return([status |-> 0, err |-> "ctx"], "cancelled")
    /\ UNCHANGED <<rimpl, bodySent, rconfig, rreq, rctx, attempt, last,
                   nextCalls, doCalls, waits, first, allRetryable>>

\* executeWithRetry: the timer fires and the next turn of the loop runs
\* (internal/client/retry.go:48-50, 17-33); the wait is positive, so the
\* timer fires only in a select that did not find the context done
ExecuteRetry ==
    /\ UNCHANGED nonRetry
    /\ rimpl = "client"
    /\ rpc = "wait"
    /\ ~rctx.done
    /\ waits' = waits + 1
    /\ \E r \in AttemptResults : executeAttempt(attempt + 1, r)
    /\ UNCHANGED <<rimpl, rconfig, rreq, rctx, nextCalls>>

RetryNext ==
    \/ HandleFirst
    \/ ContextDone
    \/ HandleCancelled
    \/ HandleRetry
    \/ ExecuteFirst
    \/ ExecuteCancelled
    \/ ExecuteRetry

BreakerOff ==
    /\ impl = "off"
    /\ config = [FailureThreshold |-> 1, RecoveryTimeout |-> 1,
                 HalfOpenMaxCalls |-> 1, observer |-> "none"]
    /\ cb = NewCircuitBreaker
    /\ mutex = "free"
    /\ mcb = NewMwCircuitBreaker
    /\ calls = [c \in Callers |-> NoCall]
    /\ pending = 0
    /\ inOrder = TRUE
    /\ obsUnderLock = FALSE
    /\ hoAdmitted = 0
    /\ streak = 0
    /\ reopened = FALSE
    /\ reopenedAt = ZeroTime
    /\ resetSince = FALSE
    /\ lastFail = ZeroTime
    /\ ev = Quiet(StateClosed)

RetryOff ==
    /\ rimpl = "middleware"
    /\ bodySent = "none"
    /\ rconfig = [MaxRetries |-> 0, RetryableStatusCodes |-> {},
                  ErrorPredicate |-> "nil"]
    /\ rreq = [hasBody |-> FALSE, hasGetBody |-> FALSE]
    /\ rctx = [hasDeadline |-> FALSE, done |-> FALSE]
    /\ rpc = "done"
    /\ attempt = 0
    /\ last = NoResult
    /\ ret = NoResult
    /\ nextCalls = 0
    /\ doCalls = 0
    /\ waits = 0
    /\ first = NoResult
    /\ allRetryable = TRUE
    /\ rexit = "none"

(* ========================= the backoff delays ========================== *)
(* calcBackoff (retry.go:158-170) and calculateBackoffDelay                 *)
(* (internal/client/retry.go:55-73). Durations are whole numbers of a unit; *)
(* the float64 arithmetic of the code is exact on the values used here, and *)
(* the conversion to time.Duration truncates toward zero.                   *)
MaxAttempt == 3

BaseDelays == {1, 3}

MaxDelays == {0, 4, 8}

\* JitterFactor, in hundredths
JitterFactors == {0, 20, 100}

\* the draw rng.Float64() of [0, 1), in tenths
Draws == {0, 3, 5, 9}

\* Multiplier
Multipliers == {1, 2}

RECURSIVE Pow(_, _)
\* math.Pow(x, n) for a whole n >= 0
Pow(x, n) == IF n = 0 THEN 1 ELSE x * Pow(x, n - 1)

\* time.Duration(f) for the float f = num / den, den > 0
Truncate(num, den) ==
    IF num >= 0 THEN num \div den ELSE -((-num) \div den)

\* calcBackoff (retry.go:158-170); the values are kept in thousandths of the
\* unit from the jitter on
calcBackoff(cfg, n, draw) ==
    LET pow == cfg.BaseDelay * Pow(2, n)
        delay == IF cfg.MaxDelay > 0 /\ pow > cfg.MaxDelay
                 THEN cfg.MaxDelay ELSE pow
        \* delay * jitterFactor * (2*rng.Float64() - 1)
        jitter == delay * cfg.JitterFactor * (2 * draw - 10)
        finalDelay == delay * 1000 + jitter
        clamped == IF cfg.MaxDelay > 0 /\ finalDelay > cfg.MaxDelay * 1000
                   THEN cfg.MaxDelay * 1000 ELSE finalDelay
    IN Truncate(clamped, 1000)

\* calculateBackoffDelay (internal/client/retry.go:55-73)
calculateBackoffDelay(cfg, n, draw) ==
    IF ~cfg.Exponential
    THEN 0
    ELSE LET pow == cfg.InitialDelay * Pow(cfg.Multiplier, n)
             delay == IF pow > cfg.MaxDelay THEN cfg.MaxDelay ELSE pow
             \* rand.Float64() * (float64(delay) * 0.25)
             jitter == Truncate(draw * delay * 25, 1000)
         IN IF cfg.Jitter THEN delay + jitter ELSE delay

BackoffConfigs ==
    [impl : {"middleware"}, BaseDelay : BaseDelays, MaxDelay : MaxDelays,
     JitterFactor : JitterFactors]
    \cup
    [impl : {"client"}, Exponential : BOOLEAN, InitialDelay : BaseDelays,
     MaxDelay : MaxDelays, Multiplier : Multipliers, Jitter : BOOLEAN]

BackoffInit ==
    /\ backoff \in [config : BackoffConfigs, attempt : 0..MaxAttempt, draw : Draws]
    /\ waited = [done |-> FALSE, delay |-> 0]

\* the middleware computes the delay of its next wait (retry.go:98)
CalcBackoff ==
    /\ UNCHANGED nonBackoff
    /\ backoff.config.impl = "middleware"
    /\ ~waited.done
    /\ waited' = [done |-> TRUE,
                  delay |-> calcBackoff(backoff.config, backoff.attempt, backoff.draw)]
    /\ UNCHANGED backoff

\* the client's executor computes the delay of its next wait
\* (internal/client/retry.go:36-37)
CalculateBackoffDelay ==
    /\ UNCHANGED nonBackoff
    /\ backoff.config.impl = "client"
    /\ ~waited.done
    /\ waited' = [done |-> TRUE,
                  delay |-> calculateBackoffDelay(backoff.config, backoff.attempt,
                                                   backoff.draw)]
    /\ UNCHANGED backoff

BackoffNext ==
    \/ CalcBackoff
    \/ CalculateBackoffDelay

BackoffOff ==
    /\ backoff = [config |-> [impl |-> "none"], attempt |-> 0, draw |-> 0]
    /\ waited = [done |-> TRUE, delay |-> 0]

(* ========================= the middleware chain ======================== *)
(* Chain (src/middleware/headers/header.go:108-117) and the request's       *)
(* buildMiddlewareChain (src/internal/client/client.go:260-273). Every      *)
(* middleware runs a request-side step, calls next once and runs a          *)
(* response-side step.                                                      *)
MaxMiddlewares == 2

MiddlewareIds == {1, 2, 3}

MiddlewareLists ==
    UNION {[1..n -> MiddlewareIds] : n \in 0..MaxMiddlewares}

\* buildMiddlewareChain (client.go:260-273)
buildMiddlewareChain(clientMiddlewares, requestMiddlewares) ==
    clientMiddlewares \o requestMiddlewares

\* a handler that runs middleware inside of next
Handle_Inside(middleware, next) == Append(next, middleware)

\* middleware.Handle(handler) (header.go:113): the handler that runs
\* middleware around next
Handle(middleware, next) == <<middleware>> \o next

ChainInit ==
    /\ middlewares \in [client : MiddlewareLists, request : MiddlewareLists,
                        all : {<<>>}]
    /\ handler = <<>>
    /\ chainI = 0
    /\ chainPc = "new"
    /\ depth = 0
    /\ trace = <<>>

\* Request.Do: the list is built and Chain begins with handler := base
\* (client.go:233-242, header.go:109-111)
BuildMiddlewareChain ==
    /\ UNCHANGED nonChain
    /\ chainPc = "new"
    /\ LET all == buildMiddlewareChain(middlewares.client, middlewares.request)
       IN /\ middlewares' = [middlewares EXCEPT !.all = all]
          /\ chainI' = Len(all)
          /\ chainPc' = IF Len(all) > 0 THEN "chain" ELSE "call"
    /\ UNCHANGED <<handler, depth, trace>>

\* Chain: one turn of the loop (header.go:111-114)
ChainLoop ==
    /\ UNCHANGED nonChain
    /\ chainPc = "chain"
    /\ chainI >= 1
    /\ handler' = Handle(middlewares.all[chainI], handler)
    /\ chainI' = chainI - 1
    /\ chainPc' = IF chainI - 1 >= 1 THEN "chain" ELSE "call"
    /\ UNCHANGED <<middlewares, depth, trace>>

\* the call enters the next middleware: its request-side step
RequestSide ==
    /\ UNCHANGED nonChain
    /\ chainPc = "call"
    /\ depth < Len(handler)
    /\ trace' = Append(trace, <<"request", handler[depth + 1]>>)
    /\ depth' = depth + 1
    /\ UNCHANGED <<middlewares, handler, chainI, chainPc>>

\* the innermost next is the terminal handler (client.go:233-235)
BaseHandler ==
    /\ UNCHANGED nonChain
    /\ chainPc = "call"
    /\ depth = Len(handler)
    /\ trace' = Append(trace, <<"base", 0>>)
    /\ chainPc' = IF depth > 0 THEN "return" ELSE "done"
    /\ UNCHANGED <<middlewares, handler, chainI, depth>>

\* next has returned to a middleware: its response-side step
ResponseSide ==
    /\ UNCHANGED nonChain
    /\ chainPc = "return"
    /\ depth > 0
    /\ trace' = Append(trace, <<"response", handler[depth]>>)
    /\ depth' = depth - 1
    /\ chainPc' = IF depth - 1 > 0 THEN "return" ELSE "done"
    /\ UNCHANGED <<middlewares, handler, chainI>>

ChainNext ==
    \/ BuildMiddlewareChain
    \/ ChainLoop
    \/ RequestSide
    \/ BaseHandler
    \/ ResponseSide

ChainOff ==
    /\ middlewares = [client |-> <<>>, request |-> <<>>, all |-> <<>>]
    /\ handler = <<>>
    /\ chainI = 0
    /\ chainPc = "done"
    /\ depth = 0
    /\ trace = <<>>

(* ======================= the cache stores (part_020) =================== *)
NumCacheCallers == 1
MaxInFlight == 1
MaxCapacity == 2
MaxClock == 2
MaxCurrentSize == 6

\* enough addresses for every element and object that can be alive at once,
\* and one more for the one a Set brings
NumElements == MaxCapacity + MaxInFlight + 1
NumObjects == NumElements + NumCacheCallers + 1

Keys == {"k1", "k2", "k3"}
CacheCallers == 1..NumCacheCallers

\* the callers that keep the entry a Get returned; the others drop it
Keepers == {1}
Elements == 1..NumElements
Objects == 1..NumObjects

\* CachedResponse, part_020:200-207: Response.StatusCode, Body, RequestURL,
\* LastAccessed, ExpiresAt
NoObject ==
    [StatusCode |-> 0, Body |-> <<>>, RequestURL |-> "", LastAccessed |-> 0,
     ExpiresAt |-> 0]

\* the entries a caller hands to Set: a short-lived 200 of the URL "k1" and
\* a long-lived 404 of the URL "k3" that was made later (LastAccessed is the
\* time.Now() of the one who makes the entry, part_020:330-345)
CachedResponses ==
    {r \in [StatusCode : {200, 404}, Body : {<<1>>, <<2, 3>>},
            RequestURL : {"k1", "k3"}, LastAccessed : {0, 1},
            ExpiresAt : {1, MaxClock}] :
        /\ (r.StatusCode = 200) <=> (r.Body = <<1>>)
        /\ (r.StatusCode = 200) <=> (r.ExpiresAt = 1)
        /\ (r.StatusCode = 200) <=> (r.RequestURL = "k1")
        /\ (r.StatusCode = 200) <=> (r.LastAccessed = 0)}

\* cacheEntry, part_020:1046-1049
NoElement == [key |-> "", response |-> 0]

\* follows: the Get began after a Set of its key that nothing has touched
\* since, and no other operation on the key has come in between so far
NoGet == [pc |-> "idle", key |-> "", element |-> 0, filename |-> <<>>,
          follows |-> FALSE]

NoEntry == [StatusCode |-> 0, Body |-> <<>>]

NoEvent ==
    [op |-> "none", found |-> FALSE, entry |-> NoEntry, afterSet |-> FALSE,
     interrupted |-> FALSE, evicted |-> 0]

Range(s) == {s[i] : i \in 1..Len(s)}

Least(S) == CHOOSE x \in S : \A y \in S : x <= y

\* list.Remove: removing an element that is not in the list does nothing
Remove(list, e) == SelectSeq(list, LAMBDA x : x # e)

\* a MoveToFront that leaves the list as it is: a use that does not count
MoveToFront_Stays(list, e) == list

\* list.MoveToFront: an element that is not in the list is left out
MoveToFront(list, e) ==
    IF e \in Range(list) THEN <<e>> \o Remove(list, e) ELSE list

\* a Get of one of these keys, between its two critical sections, has had
\* another operation on its key come in between
Disturb(gets, ks) ==
    [p \in CacheCallers |->
        IF gets[p].pc # "idle" /\ gets[p].key \in ks
        THEN [gets[p] EXCEPT !.follows = FALSE]
        ELSE gets[p]]

\* history: the keys ks have left the store
Forget(ks) ==
    /\ stored' = [k \in Keys |-> IF k \in ks THEN NoObject ELSE stored[k]]
    /\ intact' = [k \in Keys |-> intact[k] /\ k \notin ks]
    /\ recent' = SelectSeq(recent, LAMBDA k : k \notin ks)

\* The end of a step. List elements and objects are addresses: those that
\* nothing points to any more are garbage, and the others are renamed so that
\* element i is the i-th of the list (then come the removed elements a Get
\* still holds), and object i is the response of element i (then come the
\* objects only a caller still holds).
Commit(list, dat, gets, elems, hp, gt) ==
    LET held == {gets[p].element : p \in CacheCallers} \ {0}
        loose == held \ Range(list)
        live == Range(list) \cup loose
        holder(e) == Least({p \in CacheCallers : gets[p].element = e})
        elementId(e) ==
            IF e = 0 THEN 0
            ELSE IF e \in Range(list) THEN CHOOSE i \in 1..Len(list) : list[i] = e
            ELSE Len(list) + Cardinality({d \in loose : holder(d) <= holder(e)})
        elementAt(i) == CHOOSE e \in live : elementId(e) = i
        owned == {elems[e].response : e \in live}
        kept == ({gt[p] : p \in CacheCallers} \ {0}) \ owned
        keeper(o) == Least({p \in CacheCallers : gt[p] = o})
        objectId(o) ==
            IF o = 0 THEN 0
            ELSE IF o \in owned
                 THEN elementId(CHOOSE e \in live : elems[e].response = o)
            ELSE Cardinality(live) + Cardinality({f \in kept : keeper(f) <= keeper(o)})
        objectAt(i) == CHOOSE o \in owned \cup kept : objectId(o) = i
    IN  /\ lruList' = [i \in 1..Len(list) |-> i]
        /\ data' = [k \in Keys |-> elementId(dat[k])]
        /\ getCall' = [p \in CacheCallers |->
                          [gets[p] EXCEPT !.element = elementId(@)]]
        /\ elements' = [i \in Elements |->
                           IF i <= Cardinality(live)
                           THEN [key |-> elems[elementAt(i)].key, response |-> i]
                           ELSE NoElement]
        /\ heap' = [i \in Objects |->
                       IF i <= Cardinality(live) + Cardinality(kept)
                       THEN hp[objectAt(i)] ELSE NoObject]
        /\ got' = [p \in CacheCallers |-> objectId(gt[p])]

(* ----------------------- DiskCache: files and sizes -------------------- *)
\* the keys the callers of the DiskCache use: "k1" is also the URL of an
\* entry, "k3" is the URL of an entry and nobody's key
DiskKeys == {"k1", "k2"}

\* maxDiskSize, part_020:600: room for one entry, or for two
MaxDiskSizes == {4, 6}

\* sizes, in units of 512 bytes: the estimate of ensureSpace adds 1024
\* bytes to the body (part_020:798); an encoded file is the body and less
\* than a unit of gob framing
EstimateOverhead == 2
GobOverhead == 1

\* keyToFilename, part_020:778-782: the md5 of the key and ".cache"
keyToFilename(key) == <<"md5", key, ".cache">>

\* os.CreateTemp(basePath, "temp_cache_"), part_020:676
TempName == <<"temp_cache_", "*">>

Filenames == {keyToFilename(k) : k \in DiskKeys} \cup {TempName}

NoName == <<>>

\* strings.HasSuffix(name, ".cache"), part_020:897
HasCacheSuffix(name) == name # NoName /\ name[Len(name)] = ".cache"

\* gob: the encoder writes the fields in order, the decoder needs them all
Encode(r) == <<r.StatusCode, r.Body, r.RequestURL, r.LastAccessed, r.ExpiresAt>>

Decodes(bytes) == Len(bytes) = Len(Encode(NoObject))

\* a decoder that loses the body
Decode_DropsBody(bytes) ==
    [StatusCode |-> bytes[1], Body |-> <<>>, RequestURL |-> bytes[3],
     LastAccessed |-> bytes[4], ExpiresAt |-> bytes[5]]

Decode(bytes) ==
    [StatusCode |-> bytes[1], Body |-> bytes[2], RequestURL |-> bytes[3],
     LastAccessed |-> bytes[4], ExpiresAt |-> bytes[5]]

NoFile == [exists |-> FALSE, bytes |-> <<>>]

File(bytes) == [exists |-> TRUE, bytes |-> bytes]

\* info.Size()
FileSize(f) ==
    IF f.bytes = <<>> THEN 0
    ELSE GobOverhead + (IF Len(f.bytes) >= 2 THEN Len(f.bytes[2]) ELSE 0)

\* estimatedSize, part_020:791-798 (the entries have no headers)
estimatedSize(response) == Len(response.Body) + EstimateOverhead

NoSet == [pc |-> "idle", key |-> "", response |-> NoObject]

NoDelete == [pc |-> "idle", filename |-> NoName]

\* history: an entry is the stored one of its key from the rename that puts
\* its file in place, for as long as the file of the key holds it; a Get of
\* the key finds it while the index leads from the key to that file
Kept(k, fs) ==
    /\ stored[k] # NoObject
    /\ fs[keyToFilename(k)] = File(Encode(stored[k]))

Reachable(k, idx, fs) == Kept(k, fs) /\ idx[k] = keyToFilename(k)

DiskHistory(idx, fs, touched) ==
    /\ stored' = [k \in Keys |-> IF Kept(k, fs) THEN stored[k] ELSE NoObject]
    /\ intact' = [k \in Keys |->
                     intact[k] /\ Reachable(k, idx, fs) /\ k \notin touched]

\* the keys whose entry a step takes out of the reach of a Get
Lost(idx, fs) ==
    {k \in Keys : Reachable(k, index, files) /\ ~Reachable(k, idx, fs)}

\* url.Parse(cachedResp.RequestURL) and url.String(), part_020:928-933: the
\* URLs of the entries are in the form the parser prints
URLKey(requestURL) == requestURL

RECURSIVE SumSizes(_)
SumSizes(names) ==
    IF names = {} THEN 0
    ELSE LET n == CHOOSE n \in names : TRUE
         IN  FileSize(files[n]) + SumSizes(names \ {n})

(* ---------------------------- MemoryCache ------------------------------ *)
MemoryCacheInit ==
    /\ store = "memory"
    /\ now = 0
    /\ capacity = MaxCapacity
    /\ data = [k \in Keys |-> 0]
    /\ lruList = <<>>
    /\ elements = [e \in Elements |-> NoElement]
    /\ heap = [o \in Objects |-> NoObject]
    /\ getCall = [p \in CacheCallers |-> NoGet]
    /\ got = [p \in CacheCallers |-> 0]
    /\ index = [k \in Keys |-> NoName]
    /\ files = [n \in Filenames |-> NoFile]
    /\ setCall = NoSet
    /\ delCall = NoDelete
    /\ currentSize = 0
    /\ maxDiskSize = 0
    /\ interrupted = {}
    /\ stored = [k \in Keys |-> NoObject]
    /\ intact = [k \in Keys |-> FALSE]
    /\ recent = <<>>
    /\ cev = NoEvent

\* time passes
ClockTick ==
    /\ store # "off"
    /\ now < MaxClock
    /\ now' = now + 1
    /\ UNCHANGED <<store, mcvars, dcvars, stored, intact, recent, cev>>
    /\ UNCHANGED nonCache

\* MemoryCache.Get, part_020:1060-1088, its first critical section: the
\* lookup under the read lock (1061-1063) and the miss (1065-1067)
MemoryGetRead(p, key) ==
    /\ store = "memory"
    /\ getCall[p].pc = "idle"
    /\ Cardinality({q \in CacheCallers : getCall[q].pc # "idle"}) < MaxInFlight
    /\ IF data[key] = 0
       THEN /\ Commit(lruList, data, Disturb(getCall, {key}), elements, heap,
                      [got EXCEPT ![p] = 0])
            /\ cev' = [NoEvent EXCEPT !.op = "get"]
            /\ intact' = [intact EXCEPT ![key] = FALSE]
       ELSE /\ Commit(lruList, data,
                      [getCall EXCEPT ![p] =
                          [NoGet EXCEPT !.pc = "locked", !.key = key,
                                        !.element = data[key],
                                        !.follows = intact[key]]],
                      elements, heap, got)
            /\ UNCHANGED <<cev, intact>>
    /\ UNCHANGED <<store, now, capacity, dcvars, stored, recent>>
    /\ UNCHANGED nonCache

\* MemoryCache.Get, its second critical section under the write lock
\* (1070-1087): move the element to the front, drop it when expired, else
\* return the stored pointer. The LastAccessed stamp of line 1086 is left
\* out: MemoryCache never reads it.
MemoryGetLocked(p) ==
    /\ store = "memory"
    /\ getCall[p].pc = "locked"
    /\ LET element == getCall[p].element
           key == getCall[p].key
           entry == elements[element]
           response == heap[entry.response]
           current == data[key] = element
           expired == now > response.ExpiresAt
           gets == Disturb([getCall EXCEPT ![p] = NoGet], {key})
           event == [NoEvent EXCEPT !.op = "get",
                        !.afterSet = getCall[p].follows]
       IN  IF expired
           THEN /\ Commit(Remove(lruList, element), [data EXCEPT ![key] = 0],
                          gets, elements, heap, [got EXCEPT ![p] = 0])
                /\ cev' = event
                /\ Forget({key})
           ELSE /\ Commit(MoveToFront(lruList, element), data, gets, elements,
                          heap,
                          [got EXCEPT ![p] = IF p \in Keepers THEN entry.response
                                             ELSE 0])
                /\ cev' = [event EXCEPT !.found = TRUE,
                                         !.entry = [StatusCode |-> response.StatusCode,
                                                    Body |-> response.Body]]
                /\ stored' = stored
                /\ intact' = [intact EXCEPT ![key] = FALSE]
                /\ recent' = IF current
                             THEN <<key>> \o SelectSeq(recent, LAMBDA k : k # key)
                             ELSE recent
    /\ UNCHANGED <<store, now, capacity, dcvars>>
    /\ UNCHANGED nonCache

\* MemoryCache.Set, part_020:1091-1124, the whole call under the write lock:
\* an existing key has its element moved to the front and its entry
\* replaced (1096-1102); a new key evicts lruList.Back() when the list is at
\* capacity (1105-1113) and is pushed to the front (1116-1121). The store
\* keeps the caller's pointer.
MemorySet(key, response) ==
    /\ store = "memory"
    /\ LET exists == data[key] # 0
           evicts == ~exists /\ Len(lruList) >= capacity /\ lruList # <<>>
           oldest == lruList[Len(lruList)]
           gone == IF evicts THEN {elements[oldest].key} ELSE {}
           list1 == IF evicts THEN Remove(lruList, oldest) ELSE lruList
           data1 == [k \in Keys |-> IF k \in gone THEN 0 ELSE data[k]]
           held == {getCall[p].element : p \in CacheCallers}
           live == (Range(list1) \cup held) \ {0}
           used == ({elements[e].response : e \in live \ {data[key]}}
                       \cup {got[p] : p \in CacheCallers}) \ {0}
       IN  /\ Objects \ used # {}
           /\ exists \/ Elements \ live # {}
           /\ LET o == Least(Objects \ used)
                  element == IF exists THEN data[key] ELSE Least(Elements \ live)
                  list2 == IF exists THEN MoveToFront(lruList, element)
                           ELSE <<element>> \o list1
              IN  Commit(list2, [data1 EXCEPT ![key] = element],
                         Disturb(getCall, gone \cup {key}),
                         [elements EXCEPT ![element] =
                             [key |-> key, response |-> o]],
                         [heap EXCEPT ![o] = response], got)
           /\ cev' = [NoEvent EXCEPT !.op = "set",
                         !.evicted = Cardinality({k \in gone : data[k] # 0})]
           /\ stored' = [k \in Keys |-> IF k = key THEN response
                                         ELSE IF k \in gone THEN NoObject
                                         ELSE stored[k]]
           /\ intact' = [k \in Keys |-> (k = key) \/ (intact[k] /\ k \notin gone)]
           /\ recent' = <<key>> \o SelectSeq(recent, LAMBDA k : k \notin gone \cup {key})
    /\ UNCHANGED <<store, now, capacity, dcvars>>
    /\ UNCHANGED nonCache

\* MemoryCache.Delete, part_020:1127-1137
MemoryDelete(key) ==
    /\ store = "memory"
    /\ data[key] # 0
    /\ Commit(Remove(lruList, data[key]), [data EXCEPT ![key] = 0],
              Disturb(getCall, {key}), elements, heap, got)
    /\ cev' = NoEvent
    /\ Forget({key})
    /\ UNCHANGED <<store, now, capacity, dcvars>>
    /\ UNCHANGED nonCache

\* MemoryCache.Clear, part_020:1140-1148
MemoryClear ==
    /\ store = "memory"
    /\ lruList # <<>>
    /\ Commit(<<>>, [k \in Keys |-> 0], Disturb(getCall, Keys), elements,
              heap, got)
    /\ cev' = NoEvent
    /\ Forget(Keys)
    /\ UNCHANGED <<store, now, capacity, dcvars>>
    /\ UNCHANGED nonCache

\* MemoryCache.cleanup, part_020:1186-1204: one sweep of the cleanup task,
\* which drops every expired element and the map entry of its key
MemoryCleanup ==
    /\ store = "memory"
    /\ LET expired == {e \in Range(lruList) :
                          now > heap[elements[e].response].ExpiresAt}
           gone == {elements[e].key : e \in expired}
       IN  /\ expired # {}
           /\ Commit(SelectSeq(lruList, LAMBDA e : e \notin expired),
                     [k \in Keys |-> IF k \in gone THEN 0 ELSE data[k]],
                     Disturb(getCall, gone), elements, heap, got)
           /\ cev' = NoEvent
           /\ Forget(gone)
    /\ UNCHANGED <<store, now, capacity, dcvars>>
    /\ UNCHANGED nonCache

\* a caller writes to the entry its Get returned: entry.Body[0] = 9, or
\* entry.Response.StatusCode = 500 (the Response is the one the middleware
\* serves on a hit, part_020:280-282)
Mutations == {"Body"}

Mutated(r, field) ==
    IF field = "Body" THEN [r EXCEPT !.Body = <<9>> \o Tail(@)]
    ELSE [r EXCEPT !.StatusCode = 500]

CallerWrites(p, field) ==
    /\ store # "off"
    /\ got[p] # 0
    /\ heap[got[p]] # Mutated(heap[got[p]], field)
    /\ heap[got[p]] \in CachedResponses
    /\ heap' = [heap EXCEPT ![got[p]] = Mutated(@, field)]
    /\ UNCHANGED <<store, now, capacity, data, lruList, elements, getCall, got,
                   dcvars, stored, intact, recent, cev>>
    /\ UNCHANGED nonCache

MemoryCacheNext ==
    \/ \E p \in CacheCallers, key \in Keys : MemoryGetRead(p, key)
    \/ \E p \in CacheCallers : MemoryGetLocked(p)
    \/ \E key \in Keys, response \in CachedResponses :
          MemorySet(key, response)
    \/ \E key \in Keys : MemoryDelete(key)
    \/ MemoryClear
    \/ MemoryCleanup

(* ---------------------------- DiskCache -------------------------------- *)
DiskCacheInit ==
    /\ store = "disk"
    /\ now = 0
    /\ capacity = 0
    /\ data = [k \in Keys |-> 0]
    /\ lruList = <<>>
    /\ elements = [e \in Elements |-> NoElement]
    /\ heap = [o \in Objects |-> NoObject]
    /\ getCall = [p \in CacheCallers |-> NoGet]
    /\ got = [p \in CacheCallers |-> 0]
    /\ index = [k \in Keys |-> NoName]
    /\ files = [n \in Filenames |-> NoFile]
    /\ setCall = NoSet
    /\ delCall = NoDelete
    /\ currentSize = 0
    /\ maxDiskSize \in MaxDiskSizes
    /\ interrupted = {}
    /\ stored = [k \in Keys |-> NoObject]
    /\ intact = [k \in Keys |-> FALSE]
    /\ recent = <<>>
    /\ cev = NoEvent

\* the calls of Get, Delete and cleanup that have begun and not returned
DiskInFlight ==
    Cardinality({q \in CacheCallers : getCall[q].pc # "idle"})
       + (IF delCall.pc = "idle" THEN 0 ELSE 1)
       + (IF sweepCall.pc = "idle" THEN 0 ELSE 1)

\* DiskCache.Get, part_020:612-659, the index lookup (613-619)
DiskGetRead(p, key) ==
    /\ store = "disk"
    /\ getCall[p].pc = "idle"
    /\ DiskInFlight < MaxInFlight
    /\ IF index[key] = NoName
       THEN /\ Commit(lruList, data, Disturb(getCall, {key}), elements, heap,
                      [got EXCEPT ![p] = 0])
            /\ cev' = [NoEvent EXCEPT !.op = "get"]
            /\ intact' = [intact EXCEPT ![key] = FALSE]
       ELSE /\ Commit(lruList, data,
                      [getCall EXCEPT ![p] =
                          [NoGet EXCEPT !.pc = "locked", !.key = key,
                                        !.filename = index[key],
                                        !.follows = intact[key]]],
                      elements, heap, got)
            /\ UNCHANGED <<cev, intact>>
    /\ UNCHANGED <<store, now, capacity, dcvars, stored, recent>>
    /\ UNCHANGED nonCache

\* DiskCache.Get, the rest, under the read lock of c.mutex (621-658): a
\* file that is missing, does not decode or is expired makes the Get drop
\* the key (and the file); else a fresh copy of the entry is returned (its
\* LastAccessed stamp of line 657 is left out: nothing reads it). The copy
\* is the caller's own: nothing of the store points to it, and what the
\* caller does with it is left out.
DiskGetLocked(p) ==
    /\ store = "disk"
    /\ getCall[p].pc = "locked"
    /\ setCall.pc = "idle"
    /\ LET key == getCall[p].key
           filename == getCall[p].filename
           file == files[filename]
           cachedResp == Decode(file.bytes)
           found == /\ file.exists
                    /\ Decodes(file.bytes)
                    /\ ~(now > cachedResp.ExpiresAt)
           idx == IF found THEN index ELSE [index EXCEPT ![key] = NoName]
           fs == IF found \/ ~file.exists THEN files
                 ELSE [files EXCEPT ![filename] = NoFile]
           gets == Disturb([getCall EXCEPT ![p] = NoGet], {key} \cup Lost(idx, fs))
           keeps == {got[q] : q \in CacheCallers \ {p}} \ {0}
           o == Least(Objects \ keeps)
           event == [NoEvent EXCEPT !.op = "get", !.found = found,
                        !.afterSet = getCall[p].follows,
                        !.interrupted = key \in interrupted]
       IN  /\ IF found
              THEN /\ Commit(lruList, data, gets, elements,
                             [heap EXCEPT ![o] = cachedResp],
                             [got EXCEPT ![p] = 0])
                   /\ cev' = [event EXCEPT !.entry =
                                 [StatusCode |-> cachedResp.StatusCode,
                                  Body |-> cachedResp.Body]]
              ELSE /\ Commit(lruList, data, gets, elements, heap,
                             [got EXCEPT ![p] = 0])
                   /\ cev' = event
           /\ index' = idx
           /\ files' = fs
           /\ DiskHistory(idx, fs, {key})
    /\ UNCHANGED <<store, now, capacity, setCall, delCall, currentSize,
                   maxDiskSize, interrupted, recent>>
    /\ UNCHANGED nonCache

\* a sort that puts the newest LastAccessed first
Orders_NewestFirst(ks) ==
    {order \in [1..Cardinality(ks) -> ks] :
        /\ \A i, j \in 1..Cardinality(ks) : i # j => order[i] # order[j]
        /\ \A i, j \in 1..Cardinality(ks) :
              i < j => Decode(files[index[order[i]]].bytes).LastAccessed
                          >= Decode(files[index[order[j]]].bytes).LastAccessed}

\* the orders in which sort.Slice can leave the entries: oldest LastAccessed
\* first, equal ones in any order (part_020:853-855)
Orders(ks) ==
    {order \in [1..Cardinality(ks) -> ks] :
        /\ \A i, j \in 1..Cardinality(ks) : i # j => order[i] # order[j]
        /\ \A i, j \in 1..Cardinality(ks) :
              i < j => Decode(files[index[order[i]]].bytes).LastAccessed
                          <= Decode(files[index[order[j]]].bytes).LastAccessed}

\* the removal loop of evictOldEntries, part_020:857-872
RECURSIVE evictLoop(_, _, _, _, _)
evictLoop(order, idx, fs, spaceFreed, neededSpace) ==
    IF order = <<>> \/ currentSize - spaceFreed + neededSpace <= maxDiskSize
    THEN [index |-> idx, files |-> fs, spaceFreed |-> spaceFreed]
    ELSE LET key == Head(order)
             filename == index[key]
         IN  IF fs[filename].exists
             THEN evictLoop(Tail(order), [idx EXCEPT ![key] = NoName],
                            [fs EXCEPT ![filename] = NoFile],
                            spaceFreed + FileSize(files[filename]), neededSpace)
             ELSE evictLoop(Tail(order), idx, fs, spaceFreed, neededSpace)

\* evictOldEntries, part_020:810-881
evictOldEntries(order, neededSpace) ==
    LET loop == evictLoop(order, index, files, 0, neededSpace)
    IN  [index |-> loop.index, files |-> loop.files,
         currentSize |-> currentSize - loop.spaceFreed,
         err |-> currentSize - loop.spaceFreed + neededSpace > maxDiskSize]

\* ensureSpace, part_020:785-807
ensureSpace(order, response) ==
    IF maxDiskSize <= 0 \/ ~(currentSize + estimatedSize(response) > maxDiskSize)
    THEN [index |-> index, files |-> files, currentSize |-> currentSize,
          err |-> FALSE]
    ELSE evictOldEntries(order, estimatedSize(response))

\* DiskCache.Set, part_020:662-712, up to the temp file: take c.mutex,
\* make room (671-673) and create the temp file (676-679)
DiskSetBegin(key, response) ==
    /\ store = "disk"
    /\ setCall.pc = "idle"
    /\ LET entries == {k \in Keys : /\ index[k] # NoName
                                    /\ files[index[k]].exists
                                    /\ Decodes(files[index[k]].bytes)}
       IN  \E order \in Orders(entries) :
              LET space == ensureSpace(order, response)
                  fs == IF space.err THEN space.files
                        ELSE [space.files EXCEPT ![TempName] = File(<<>>)]
              IN  /\ index' = space.index
                  /\ files' = fs
                  /\ currentSize' = space.currentSize
                  /\ setCall' = IF space.err THEN NoSet
                                ELSE [pc |-> "temp", key |-> key,
                                      response |-> response]
                  /\ getCall' = Disturb(getCall, Lost(space.index, fs))
                  /\ DiskHistory(space.index, fs, {})
                  /\ cev' = [NoEvent EXCEPT
                               !.op = IF space.err THEN "nospace" ELSE "room",
                               !.evicted = Cardinality(
                                   {k \in Keys : /\ index[k] # NoName
                                                 /\ space.index[k] = NoName})]
                  /\ interrupted' = IF space.err THEN interrupted
                                    ELSE interrupted \ {key}
    /\ UNCHANGED <<store, now, capacity, data, lruList, elements, heap, got,
                   delCall, maxDiskSize, recent>>
    /\ UNCHANGED nonCache

\* DiskCache.Set, the gob encoder writing the temp file (687-693): the
\* file holds a part of the entry before it holds all of it
DiskSetEncode ==
    /\ store = "disk"
    /\ setCall.pc \in {"temp", "partial"}
    /\ files' = [files EXCEPT ![TempName] =
                    IF setCall.pc = "temp"
                    THEN File(SubSeq(Encode(setCall.response), 1, 2))
                    ELSE File(Encode(setCall.response))]
    /\ setCall' = [setCall EXCEPT !.pc = IF @ = "temp" THEN "partial" ELSE "encoded"]
    /\ UNCHANGED <<store, now, capacity, data, lruList, elements, heap, getCall,
                   got, index, delCall, currentSize, maxDiskSize, interrupted,
                   stored, intact, recent, cev>>
    /\ UNCHANGED nonCache

\* DiskCache.Set, os.Rename of the temp file onto the file of the key (696)
DiskSetRename ==
    /\ store = "disk"
    /\ setCall.pc = "encoded"
    /\ LET fs == [files EXCEPT ![keyToFilename(setCall.key)] = files[TempName],
                               ![TempName] = NoFile]
       IN  /\ files' = fs
           /\ getCall' = Disturb(getCall, {setCall.key} \cup Lost(index, fs))
           /\ stored' = [stored EXCEPT ![setCall.key] = setCall.response]
           /\ intact' = [intact EXCEPT ![setCall.key] = FALSE]
    /\ setCall' = [setCall EXCEPT !.pc = "renamed"]
    /\ UNCHANGED <<store, now, capacity, data, lruList, elements, heap, got,
                   index, delCall, currentSize, maxDiskSize, interrupted,
                   recent, cev>>
    /\ UNCHANGED nonCache

\* DiskCache.Set, the end (701-711): the index entry, the size of the file
\* added to currentSize when the file is still there, c.mutex released
DiskSetFinish ==
    /\ store = "disk"
    /\ setCall.pc = "renamed"
    /\ LET key == setCall.key
           file == files[keyToFilename(key)]
           idx == [index EXCEPT ![key] = keyToFilename(key)]
           here == file = File(Encode(setCall.response))
       IN  /\ currentSize + FileSize(file) <= MaxCurrentSize
           /\ index' = idx
           /\ currentSize' = IF file.exists THEN currentSize + FileSize(file)
                             ELSE currentSize
           /\ getCall' = Disturb(getCall, {key})
           /\ stored' = stored
           /\ intact' = [intact EXCEPT ![key] = here]
    /\ setCall' = NoSet
    /\ cev' = [NoEvent EXCEPT !.op = "set"]
    /\ UNCHANGED <<store, now, capacity, data, lruList, elements, heap, got,
                   files, delCall, maxDiskSize, interrupted, recent>>
    /\ UNCHANGED nonCache

\* DiskCache.Delete, part_020:715-736, the index entry (716-725)
DiskDelete(key) ==
    /\ store = "disk"
    /\ delCall.pc = "idle"
    /\ DiskInFlight < MaxInFlight
    /\ index[key] # NoName
    /\ LET idx == [index EXCEPT ![key] = NoName]
       IN  /\ index' = idx
           /\ getCall' = Disturb(getCall, {key} \cup Lost(idx, files))
           /\ DiskHistory(idx, files, {key})
    /\ delCall' = [pc |-> "remove", filename |-> index[key]]
    /\ cev' = NoEvent
    /\ UNCHANGED <<store, now, capacity, data, lruList, elements, heap, got,
                   files, setCall, currentSize, maxDiskSize, interrupted, recent>>
    /\ UNCHANGED nonCache

\* DiskCache.Delete, the file (727-735), with no lock held
DiskDeleteRemove ==
    /\ store = "disk"
    /\ delCall.pc = "remove"
    /\ LET file == files[delCall.filename]
           fs == [files EXCEPT ![delCall.filename] = NoFile]
       IN  /\ currentSize - FileSize(file) >= 0 - MaxCurrentSize
           /\ files' = fs
           /\ currentSize' = IF file.exists THEN currentSize - FileSize(file)
                             ELSE currentSize
           /\ getCall' = Disturb(getCall, Lost(index, fs))
           /\ DiskHistory(index, fs, {})
    /\ delCall' = NoDelete
    /\ UNCHANGED <<store, now, capacity, data, lruList, elements, heap, got,
                   index, setCall, maxDiskSize, interrupted, recent, cev>>
    /\ UNCHANGED nonCache

\* DiskCache.Clear, part_020:739-769, under c.mutex: every file of the
\* directory goes, temp files too
DiskClear ==
    /\ store = "disk"
    /\ setCall.pc = "idle"
    /\ \E k \in Keys : index[k] # NoName
    /\ index' = [k \in Keys |-> NoName]
    /\ files' = [n \in Filenames |-> NoFile]
    /\ currentSize' = 0
    /\ getCall' = Disturb(getCall, Keys)
    /\ DiskHistory([k \in Keys |-> NoName], [n \in Filenames |-> NoFile], Keys)
    /\ cev' = NoEvent
    /\ UNCHANGED <<store, now, capacity, data, lruList, elements, heap, got,
                   setCall, delCall, maxDiskSize, interrupted, recent>>
    /\ UNCHANGED nonCache

\* DiskCache.cleanup, part_020:958-1013: one sweep of the cleanup task. It
\* ends with currentSize updated under c.mutex (1005-1012), so the sweeps
\* taken here are those that run while no Set holds the lock.
DiskCleanup ==
    /\ store = "disk"
    /\ setCall.pc = "idle"
    /\ LET keysToCheck == {k \in Keys : index[k] # NoName}
           missing == {k \in keysToCheck : ~files[index[k]].exists}
           bad == {k \in keysToCheck \ missing :
                      \/ ~Decodes(files[index[k]].bytes)
                      \/ now > Decode(files[index[k]].bytes).ExpiresAt}
           names == {index[k] : k \in bad}
           removedSize == SumSizes(names)
           idx == [k \in Keys |-> IF k \in missing \cup bad THEN NoName ELSE index[k]]
           fs == [n \in Filenames |-> IF n \in names THEN NoFile ELSE files[n]]
       IN  /\ missing \cup bad # {}
           /\ index' = idx
           /\ files' = fs
           /\ currentSize' = IF currentSize - removedSize < 0 THEN 0
                             ELSE currentSize - removedSize
           /\ getCall' = Disturb(getCall, missing \cup bad \cup Lost(idx, fs))
           /\ DiskHistory(idx, fs, missing \cup bad)
    /\ cev' = NoEvent
    /\ UNCHANGED <<store, now, capacity, data, lruList, elements, heap, got,
                   setCall, delCall, maxDiskSize, interrupted, recent>>
    /\ UNCHANGED nonCache

\* The process ends, at any point of any call, and NewDiskCache opens the
\* directory again (part_020:591-609). loadIndex, part_020:884-939, scans
\* the files that end in ".cache": a file that does not decode is skipped,
\* an expired one is removed, and the others are indexed under the URL of
\* their entry; of two files with one URL the later in the listing stays.
Restart ==
    /\ store = "disk"
    /\ LET names == {n \in Filenames : /\ HasCacheSuffix(n)
                                      /\ files[n].exists
                                      /\ Decodes(files[n].bytes)}
           expired == {n \in names : now > Decode(files[n].bytes).ExpiresAt}
           loaded == names \ expired
           key(n) == URLKey(Decode(files[n].bytes).RequestURL)
           fs == [n \in Filenames |-> IF n \in expired THEN NoFile ELSE files[n]]
       IN  \E idx \in [Keys -> loaded \cup {NoName}] :
              /\ \A k \in Keys : idx[k] # NoName => key(idx[k]) = k
              /\ \A k \in Keys : idx[k] = NoName => \A n \in loaded : key(n) # k
              /\ index' = idx
              /\ files' = fs
              /\ currentSize' = SumSizes(loaded)
              /\ DiskHistory(idx, fs, Keys)
    /\ setCall' = NoSet
    /\ delCall' = NoDelete
    /\ getCall' = [p \in CacheCallers |-> NoGet]
    /\ got' = [p \in CacheCallers |-> 0]
    /\ heap' = [o \in Objects |-> NoObject]
    /\ interrupted' = IF setCall.pc \in {"temp", "partial", "encoded"}
                      THEN interrupted \cup {setCall.key} ELSE interrupted
    /\ cev' = NoEvent
    /\ UNCHANGED <<store, now, capacity, data, lruList, elements, maxDiskSize,
                   recent>>
    /\ UNCHANGED nonCache

DiskCacheNext ==
    \/ \E p \in CacheCallers, key \in DiskKeys : DiskGetRead(p, key)
    \/ \E p \in CacheCallers : DiskGetLocked(p)
    \/ \E key \in DiskKeys, response \in CachedResponses :
          DiskSetBegin(key, response)
    \/ DiskSetEncode
    \/ DiskSetRename
    \/ DiskSetFinish
    \/ \E key \in DiskKeys : DiskDelete(key)
    \/ DiskDeleteRemove
    \/ DiskClear
    \/ DiskCleanup
    \/ Restart

CacheInit ==
    MemoryCacheInit \/ DiskCacheInit

CacheNext ==
    \/ ClockTick
    \/ MemoryCacheNext
    \/ DiskCacheNext
    \/ \E p \in CacheCallers, field \in Mutations : CallerWrites(p, field)

CacheOff ==
    /\ store = "off"
    /\ now = 0
    /\ capacity = 0
    /\ data = [k \in Keys |-> 0]
    /\ lruList = <<>>
    /\ elements = [e \in Elements |-> NoElement]
    /\ heap = [o \in Objects |-> NoObject]
    /\ getCall = [p \in CacheCallers |-> NoGet]
    /\ got = [p \in CacheCallers |-> 0]
    /\ index = [k \in Keys |-> NoName]
    /\ files = [n \in Filenames |-> NoFile]
    /\ setCall = NoSet
    /\ delCall = NoDelete
    /\ currentSize = 0
    /\ maxDiskSize = 0
    /\ interrupted = {}
    /\ stored = [k \in Keys |-> NoObject]
    /\ intact = [k \in Keys |-> FALSE]
    /\ recent = <<>>
    /\ cev = NoEvent


(* ==================== the cleanup task (part_020) ====================== *)
SweptKeys == {"k1", "k2", "k3"}

SweepInit ==
    /\ swept \in {"memory", "disk"}
    /\ swEntries = [k \in SweptKeys |-> "none"]
    /\ isNil = FALSE
    /\ closed = FALSE
    /\ task = "none"
    /\ tickerC = 0

\* Set of a fresh entry, while the store is open
SweptSet(k) ==
    /\ swept # "off"
    /\ ~closed
    /\ task # "panicked"
    /\ swEntries' = [swEntries EXCEPT ![k] = "fresh"]
    /\ UNCHANGED <<swept, isNil, closed, task, tickerC>>
    /\ UNCHANGED nonSweep

\* time passes the ExpiresAt of an entry
Expires(k) ==
    /\ swEntries[k] = "fresh"
    /\ task # "panicked"
    /\ swEntries' = [swEntries EXCEPT ![k] = "expired"]
    /\ UNCHANGED <<swept, isNil, closed, task, tickerC>>
    /\ UNCHANGED nonSweep

\* StartCleanupTask, part_020:942-955 and 1170-1183: go func() with a
\* ticker of its own; nothing of the store keeps a handle on it
StartCleanupTask ==
    /\ swept # "off"
    /\ ~closed
    /\ task = "none"
    /\ task' = "waiting"
    /\ UNCHANGED <<swept, swEntries, isNil, closed, tickerC>>
    /\ UNCHANGED nonSweep

\* the ticker sends on ticker.C every interval, dropping the tick when the
\* channel is full; it is stopped by the deferred ticker.Stop() only, which
\* runs when the goroutine returns
TickerFires ==
    /\ task \in {"waiting", "cleanup"}
    /\ tickerC = 0
    /\ tickerC' = 1
    /\ UNCHANGED <<swept, swEntries, isNil, closed, task>>
    /\ UNCHANGED nonSweep

\* for range ticker.C (part_020:951, 1179): the loop receives a tick and
\* calls c.cleanup(); no other case ends the loop
TaskReceives ==
    /\ task = "waiting"
    /\ tickerC = 1
    /\ tickerC' = 0
    /\ task' = "cleanup"
    /\ UNCHANGED <<swept, swEntries, isNil, closed>>
    /\ UNCHANGED nonSweep

\* c.cleanup(): MemoryCache.cleanup, part_020:1186-1204, walks c.lruList
\* from c.lruList.Front(), which dereferences a nil list after Close;
\* DiskCache.cleanup, part_020:958-1013, reads the index and the files.
\* Both remove the expired entries.
cleanup ==
    /\ task = "cleanup"
    /\ IF swept = "memory" /\ isNil
       THEN /\ task' = "panicked"
            /\ UNCHANGED swEntries
       ELSE /\ task' = "waiting"
            /\ swEntries' = [k \in SweptKeys |->
                              IF swEntries[k] = "expired" THEN "none"
                              ELSE swEntries[k]]
    /\ UNCHANGED <<swept, isNil, closed, tickerC>>
    /\ UNCHANGED nonSweep

\* MemoryCache.Close, part_020:1151-1159: c.data = nil, c.lruList = nil
\* under the lock, so not while a cleanup holds it; DiskCache.Close,
\* part_020:772-775: "Nothing special needed", returns nil
Close ==
    /\ swept # "off"
    /\ ~closed
    /\ task \in {"none", "waiting"}
    /\ closed' = TRUE
    /\ IF swept = "memory"
       THEN /\ isNil' = TRUE
            /\ swEntries' = [k \in SweptKeys |-> "none"]
       ELSE UNCHANGED <<isNil, swEntries>>
    /\ UNCHANGED <<swept, task, tickerC>>
    /\ UNCHANGED nonSweep

SweepNext ==
    \/ \E k \in SweptKeys : SweptSet(k)
    \/ \E k \in SweptKeys : Expires(k)
    \/ StartCleanupTask
    \/ TickerFires
    \/ TaskReceives
    \/ cleanup
    \/ Close

SweepOff ==
    /\ swept = "off"
    /\ swEntries = [k \in SweptKeys |-> "none"]
    /\ isNil = FALSE
    /\ closed = FALSE
    /\ task = "none"
    /\ tickerC = 0


(* ============= the cache middleware (middleware/headers) =============== *)
NumClients == 2
MaxHandles == 3
MaxMwClock == 2

\* Config.DefaultTTL, in ticks
DefaultTTL == 1

Clients == 1..NumClients

\* the http.Response objects the calls can allocate: the handler's and the
\* copy kept in the entry, or the one a DiskCache.Get decodes
Pointers == 1..(2 * MaxHandles)

Methods == {"GET", "HEAD", "POST"}

\* a request: its method, its URL and whether it carries
\* "Cache-Control: no-cache" (a GET may)
Requests ==
    {r \in [Method : Methods, URL : {"/a"}, NoCache : BOOLEAN] :
        r.NoCache => r.Method = "GET"}

\* the lines of the Cache-Control header of a response, each line split at
\* its commas
CacheControls ==
    {<<>>, <<<<"max-age=1", " no-store">>>>, <<<<"private">>>>,
     <<<<"max-age=1">>, <<"no-store">>>>}

\* what the wrapped handler returns: resp, err (no response with an error)
HandlerResults ==
    {r \in [err : BOOLEAN, StatusCode : {0, 200, 500},
            CacheControl : CacheControls] :
        /\ r.err <=> (r.StatusCode = 0)
        /\ r.StatusCode # 200 => r.CacheControl = <<>>}

\* the body of a response of that status
BodyOf(status) == IF status = 200 THEN <<1, 2>> ELSE <<3>>

\* CacheableStatus, header.go:166-175
CacheableStatus == {200, 203, 204, 206, 300, 301, 404, 410}

NoResponse == [StatusCode |-> 0, Body |-> <<>>]

NoCached == [Response |-> 0, StatusCode |-> 0, Body |-> <<>>, ExpiresAt |-> 0]

NoRequest == [Method |-> "", URL |-> "", NoCache |-> FALSE]

\* pc: "idle" | "next" (in the wrapped handler) | "returned" (the caller has
\* the response and has not read its body) | "read"
\* gets, nexts, spawned: the calls of m.cache.Get and of next, and the
\* goroutines started, by this call; fresh: the status and body of the
\* entry that was in the store and fresh for this request when the call
\* began
NoHandle ==
    [pc |-> "idle", req |-> NoRequest, key |-> <<>>, resp |-> 0, err |-> FALSE,
     gets |-> 0, nexts |-> 0, spawned |-> 0, fresh |-> NoResponse]

\* isCacheableMethod, header.go:386-388
isCacheableMethod(method) == method = "GET" \/ method = "HEAD"

\* GenerateKey, header.go:333-335 and 344-346
GenerateKey(req) ==
    IF mwConfig.KeyStrategy = "KeyByURLOnly" THEN <<req.URL>>
    ELSE <<req.Method, ":", req.URL>>

\* strings.TrimSpace
TrimSpace(directive) ==
    IF directive = " no-store" THEN "no-store" ELSE directive

\* http.Header.Get: the first line of the header, "" when there is none
HeaderGet(lines) == IF lines = <<>> THEN <<>> ELSE lines[1]

\* isFresh, header.go:418-440
isFresh(cachedResp, req) ==
    /\ ~(mwNow > cachedResp.ExpiresAt)
    /\ ~(mwConfig.RespectCacheControl /\ req.NoCache)

\* isCacheable, header.go:442-460
isCacheable(result) ==
    /\ result.StatusCode \in CacheableStatus
    /\ mwConfig.RespectCacheControl =>
          \A i \in 1..Len(HeaderGet(result.CacheControl)) :
             TrimSpace(HeaderGet(result.CacheControl)[i])
                \notin {"no-store", "no-cache", "private"}

\* calculateExpiration, header.go:462-483: max-age=1 and the default TTL
\* both give one tick from now
calculateExpiration(result) == mwNow + DefaultTTL

\* the pointers no call and no entry holds
Unused ==
    {o \in Pointers : responses[o] = NoResponse}

MwInit ==
    /\ mwConfig \in [Enabled : BOOLEAN, RespectCacheControl : BOOLEAN,
                     KeyStrategy : {"KeyByURLAndMethod"},
                     cache : {"MemoryCache", "DiskCache"}]
    /\ mwNow = 0
    /\ mwCache = [k \in {GenerateKey(r) : r \in Requests} |-> NoCached]
    /\ responses = [o \in Pointers |-> NoResponse]
    /\ handles = [p \in Clients |-> NoHandle]
    /\ sets = {}
    /\ made = 0

MwTick ==
    /\ mwConfig.cache # "off"
    /\ mwNow < MaxMwClock
    /\ mwNow' = mwNow + 1
    /\ UNCHANGED <<mwConfig, mwCache, responses, handles, sets, made>>
    /\ UNCHANGED nonMw

\* Handle, header.go:239-258: the tests of the method and of the URL, the
\* key, m.cache.Get and isFresh. A hit returns cachedResp.Response with a
\* new reader of cachedResp.Body as its Body (252-254): with a MemoryCache
\* that is the stored response itself, with a DiskCache the one decoded for
\* this Get. A stale entry is deleted (257) and next is called, as it is on
\* a miss and for the requests the middleware lets through (241).
HandleBegin(p, req) ==
    /\ mwConfig.cache # "off"
    /\ handles[p].pc = "idle"
    /\ made < MaxHandles
    /\ made' = made + 1
    /\ LET key == GenerateKey(req)
           call == [NoHandle EXCEPT !.req = req, !.key = key]
           through == ~mwConfig.Enabled \/ ~isCacheableMethod(req.Method)
           cachedResp == mwCache[key]
           found == /\ cachedResp # NoCached
                    /\ ~(mwNow > cachedResp.ExpiresAt)
           hit == found /\ isFresh(cachedResp, req)
           resp == IF mwConfig.cache = "MemoryCache" THEN cachedResp.Response
                   ELSE CHOOSE o \in Unused : \A q \in Unused : o <= q
       IN  IF through
           THEN /\ handles' = [handles EXCEPT ![p] =
                                  [call EXCEPT !.pc = "next", !.nexts = 1]]
                /\ UNCHANGED <<mwCache, responses>>
           ELSE IF hit
           THEN /\ handles' = [handles EXCEPT ![p] =
                                  [call EXCEPT !.pc = "returned", !.gets = 1,
                                               !.resp = resp,
                                               !.fresh =
                                                  [StatusCode |-> cachedResp.StatusCode,
                                                   Body |-> cachedResp.Body]]]
                /\ responses' = [responses EXCEPT ![resp] =
                                    [StatusCode |-> cachedResp.StatusCode,
                                     Body |-> cachedResp.Body]]
                /\ UNCHANGED mwCache
           ELSE /\ handles' = [handles EXCEPT ![p] =
                                  [call EXCEPT !.pc = "next", !.gets = 1,
                                               !.nexts = 1]]
                /\ mwCache' = [mwCache EXCEPT ![key] = NoCached]
                /\ UNCHANGED responses
    /\ UNCHANGED <<mwConfig, mwNow, sets>>
    /\ UNCHANGED nonMw

\* Handle, header.go:260-304: next returns; an error is returned as it is;
\* a cacheable response is read, copied into a CachedResponse and handed to
\* a goroutine that will call m.cache.Set (299-301); the caller gets the
\* handler's response with a new reader of the body
NextReturns(p, result) ==
    /\ handles[p].pc = "next"
    /\ LET call == handles[p]
           through == ~mwConfig.Enabled \/ ~isCacheableMethod(call.req.Method)
           resp == CHOOSE o \in Unused : \A q \in Unused : o <= q
           respCopy == CHOOSE o \in Unused \ {resp} :
                          \A q \in Unused \ {resp} : o <= q
           stores == ~through /\ ~result.err /\ isCacheable(result)
           cachedResp == [Response |-> IF mwConfig.cache = "MemoryCache"
                                       THEN respCopy ELSE 0,
                          StatusCode |-> result.StatusCode,
                          Body |-> BodyOf(result.StatusCode),
                          ExpiresAt |-> calculateExpiration(result)]
       IN  /\ handles' = [handles EXCEPT ![p] =
                  [call EXCEPT !.pc = IF result.err THEN "read" ELSE "returned",
                               !.err = result.err,
                               !.resp = IF result.err THEN 0 ELSE resp,
                               !.spawned = IF stores THEN 1 ELSE 0]]
           /\ responses' =
                 [o \in Pointers |->
                     IF ~result.err /\ o = resp
                     THEN [StatusCode |-> result.StatusCode,
                           Body |-> BodyOf(result.StatusCode)]
                     ELSE IF stores /\ mwConfig.cache = "MemoryCache" /\ o = respCopy
                     THEN [StatusCode |-> result.StatusCode, Body |-> <<>>]
                     ELSE responses[o]]
           /\ sets' = IF stores
                      THEN sets \cup {[key |-> call.key, cachedResp |-> cachedResp]}
                      ELSE sets
    /\ UNCHANGED <<mwConfig, mwNow, mwCache, made>>
    /\ UNCHANGED nonMw

\* the goroutine of header.go:299-301 runs: m.cache.Set(key, cachedResp)
CacheSet ==
    /\ \E set \in sets :
          /\ mwCache' = [mwCache EXCEPT ![set.key] = set.cachedResp]
          /\ sets' = sets \ {set}
    /\ UNCHANGED <<mwConfig, mwNow, responses, handles, made>>
    /\ UNCHANGED nonMw

\* the caller reads the body of the response it was given to the end:
\* io.ReadAll(resp.Body)
ReadAll(p) ==
    /\ handles[p].pc = "returned"
    /\ LET resp == handles[p].resp
       IN  /\ handles' = [handles EXCEPT ![p].pc = "read"]
           /\ responses' = [responses EXCEPT ![resp].Body = <<>>]
    /\ UNCHANGED <<mwConfig, mwNow, mwCache, sets, made>>
    /\ UNCHANGED nonMw

\* the caller is done with the response and may send another request
Done(p) ==
    /\ handles[p].pc = "read"
    /\ handles' = [handles EXCEPT ![p] = NoHandle]
    /\ UNCHANGED <<mwConfig, mwNow, mwCache, responses, sets, made>>
    /\ UNCHANGED nonMw

MwNext ==
    \/ MwTick
    \/ \E p \in Clients, req \in Requests : HandleBegin(p, req)
    \/ \E p \in Clients, result \in HandlerResults : NextReturns(p, result)
    \/ CacheSet
    \/ \E p \in Clients : ReadAll(p)
    \/ \E p \in Clients : Done(p)

MwOff ==
    /\ mwConfig = [Enabled |-> FALSE, RespectCacheControl |-> FALSE,
                   KeyStrategy |-> "KeyByURLAndMethod", cache |-> "off"]
    /\ mwNow = 0
    /\ mwCache = <<>>
    /\ responses = <<>>
    /\ handles = <<>>
    /\ sets = {}
    /\ made = 0


(* ========================== the SSE decoders =========================== *)
MaxLines == 4

\* strings are sequences of characters
S_event == <<"e", "v", "e", "n", "t">>
S_data == <<"d", "a", "t", "a">>
S_id == <<"i", "d">>
S_retry == <<"r", "e", "t", "r", "y">>
S_message == <<"m", "e", "s", "s", "a", "g", "e">>

\* the lines of the streams
Lines ==
    {<<>>,
     S_data \o <<":">>,
     S_data \o <<":", " ">>,
     S_data \o <<":", " ", "x">>,
     S_data \o <<":", "y">>,
     S_event \o <<":", " ", "c">>,
     S_id \o <<":", " ", "1">>,
     S_retry \o <<":", " ", "5">>,
     S_retry \o <<":", " ", "-", "5">>,
     S_retry \o <<":", " ", "x">>,
     S_retry \o <<":">>,
     <<":", "c">>}

\* strings.HasPrefix
HasPrefix(s, prefix) ==
    Len(s) >= Len(prefix) /\ SubSeq(s, 1, Len(prefix)) = prefix

\* the place of the first colon of a line, 0 when it has none
Colon(line) ==
    IF \E i \in 1..Len(line) : line[i] = ":"
    THEN CHOOSE i \in 1..Len(line) :
            line[i] = ":" /\ \A j \in 1..(i - 1) : line[j] # ":"
    ELSE 0

\* strings.SplitN(line, ":", 2)
SplitN(line) ==
    IF Colon(line) = 0 THEN <<line>>
    ELSE <<SubSeq(line, 1, Colon(line) - 1),
           SubSeq(line, Colon(line) + 1, Len(line))>>

\* strings.TrimPrefix(s, " ")
TrimPrefix(s) == IF s # <<>> /\ s[1] = " " THEN Tail(s) ELSE s

\* strings.TrimSpace on a string of characters
RECURSIVE TrimBoth(_)
TrimBoth(s) ==
    IF s = <<>> THEN s
    ELSE IF s[1] = " " THEN TrimBoth(Tail(s))
    ELSE IF s[Len(s)] = " " THEN TrimBoth(SubSeq(s, 1, Len(s) - 1))
    ELSE s

Digits == {"0", "1", "5"}

DigitValue(c) == IF c = "0" THEN 0 ELSE IF c = "1" THEN 1 ELSE 5

RECURSIVE Number(_, _)
Number(s, acc) ==
    IF s = <<>> THEN acc ELSE Number(Tail(s), 10 * acc + DigitValue(Head(s)))

\* strconv.Atoi: an optional sign and decimal digits, err otherwise
Atoi(s) ==
    LET signed == s # <<>> /\ s[1] \in {"+", "-"}
        digits == IF signed THEN Tail(s) ELSE s
        ok == digits # <<>> /\ \A i \in 1..Len(digits) : digits[i] \in Digits
    IN  [err |-> ~ok,
         n |-> IF ~ok THEN 0
               ELSE IF signed /\ s[1] = "-" THEN 0 - Number(digits, 0)
               ELSE Number(digits, 0)]

\* Event{}, and the zero values of streamSSE's variables
NoFields == [Event |-> <<>>, ID |-> <<>>, Retry |-> 0]

NoSeen == [fields |-> {}, validRetry |-> FALSE, dataValues |-> <<>>]

SSEEvent(fields, text) ==
    [Event |-> fields.Event, Data |-> text, ID |-> fields.ID,
     Retry |-> fields.Retry]

\* the field grammar: the name before the first colon, the value after it
\* less one leading space; a line that starts with a colon is a comment
FieldOf(line) ==
    IF line = <<>> \/ Colon(line) = 1 THEN <<>>
    ELSE IF Colon(line) = 0 THEN line
    ELSE SubSeq(line, 1, Colon(line) - 1)

ValueOf(line) ==
    IF Colon(line) = 0 THEN <<>>
    ELSE TrimPrefix(SubSeq(line, Colon(line) + 1, Len(line)))

\* what the lines read for the coming event hold, with one more line
See(line) ==
    LET field == FieldOf(line)
        value == ValueOf(line)
        retry == Atoi(value)
    IN  IF field = S_data
        THEN [sseSeen EXCEPT !.fields = @ \cup {"data"},
                          !.dataValues = Append(@, value)]
        ELSE IF field = S_event THEN [sseSeen EXCEPT !.fields = @ \cup {"event"}]
        ELSE IF field = S_id THEN [sseSeen EXCEPT !.fields = @ \cup {"id"}]
        ELSE IF field = S_retry
        THEN [sseSeen EXCEPT !.fields = @ \cup {"retry"},
                          !.validRetry = @ \/ (~retry.err /\ retry.n >= 0)]
        ELSE IF line = <<>> THEN [sseSeen EXCEPT !.dataValues = <<>>]
        ELSE sseSeen

\* what a handler returns: nil or one of two errors
HandlerReturns == {"nil", "e1", "e2"}

\* what Body.Read returns as err, and scanner.Err()
ReadErrors == {"nil", "EOF", "read error"}

ScanErrors == {"nil", "scan error"}

\* the lines of the line and NDJSON streams, and those that are JSON values
JSONLines == {<<>>, <<"{", "}">>, <<"1">>, <<"{">>}

ValidJSON(line) == line \in {<<"{", "}">>, <<"1">>}

SSEInit ==
    /\ decoder \in {"StreamSSE", "streamSSE", "Stream", "StreamLines", "StreamJSON"}
    /\ lifecycle \in BOOLEAN
    /\ lifecycle => decoder = "StreamSSE"
    /\ scanned = 0
    /\ ssePc = IF lifecycle THEN "open" ELSE "scan"
    /\ sse = NoFields
    /\ sseData = <<>>
    /\ hasData = FALSE
    /\ out = <<>>
    /\ sseSeen = NoSeen
    /\ handed = <<>>
    /\ handled = "none"
    /\ sseRet = "none"
    /\ onClose = FALSE

\* the loop takes another turn
GoesOn == ssePc' = ssePc /\ sseRet' = sseRet /\ onClose' = onClose

\* the decoder returns e; the deferred OnClose of a lifecycle handler runs
\* (stream.go:303)
Returns(e) == ssePc' = "returned" /\ sseRet' = e /\ onClose' = lifecycle

\* StreamSSE, stream.go:299-304: OnOpen of a lifecycle handler
OnOpen ==
    /\ ssePc = "open"
    /\ \E handlerErr \in HandlerReturns :
          IF handlerErr # "nil"
          THEN ssePc' = "returned" /\ sseRet' = handlerErr
          ELSE ssePc' = "scan" /\ sseRet' = sseRet
    /\ UNCHANGED <<decoder, lifecycle, scanned, sse, sseData, hasData, out,
                   sseSeen, handed, handled, onClose>>
    /\ UNCHANGED nonSSE

\* StreamSSE, stream.go:310-352: one turn of the loop
StreamSSE(line, handlerErr) ==
    /\ decoder = "StreamSSE"
    /\ IF line = <<>>
       THEN IF Len(sseData) > 0
            THEN /\ out' = <<SSEEvent(sse, sseData)>>
                 /\ handled' = handlerErr
                 /\ IF handlerErr # "nil"
                    THEN Returns(handlerErr) /\ UNCHANGED <<sse, sseData>>
                    ELSE GoesOn /\ sse' = NoFields /\ sseData' = <<>>
            ELSE /\ out' = <<>>
                 /\ handled' = "none"
                 /\ GoesOn
                 /\ UNCHANGED <<sse, sseData>>
       ELSE IF HasPrefix(line, <<":">>)
       THEN /\ out' = <<>>
            /\ handled' = "none"
            /\ GoesOn
            /\ UNCHANGED <<sse, sseData>>
       ELSE LET parts == SplitN(line)
                field == parts[1]
                value == IF Len(parts) > 1 THEN TrimPrefix(parts[2]) ELSE <<>>
                retry == Atoi(value)
            IN  /\ out' = <<>>
                /\ handled' = "none"
                /\ GoesOn
                /\ sse' = IF field = S_event THEN [sse EXCEPT !.Event = value]
                          ELSE IF field = S_id THEN [sse EXCEPT !.ID = value]
                          ELSE IF field = S_retry /\ ~retry.err
                          THEN [sse EXCEPT !.Retry = retry.n]
                          ELSE sse
                /\ sseData' = IF field = S_data
                              THEN (IF Len(sseData) > 0
                                    THEN sseData \o <<"\n">> \o value
                                    ELSE value)
                              ELSE sseData
    /\ UNCHANGED hasData

\* streamSSE's processEvent, oauth.go:600-625: what it dispatches, what the
\* handler returned, what it returns, and what it leaves in event, data,
\* id, retry, hasData
processEvent(handlerErr) ==
    IF ~hasData
    THEN [out |-> <<>>, handled |-> "none", err |-> "nil",
          sse |-> sse, data |-> sseData, hasData |-> hasData]
    ELSE LET event == IF sse.Event = <<>> THEN S_message ELSE sse.Event
             given == SSEEvent([sse EXCEPT !.Event = event], sseData)
         IN  IF handlerErr # "nil"
             THEN [out |-> <<given>>, handled |-> handlerErr, err |-> handlerErr,
                   sse |-> [sse EXCEPT !.Event = event], data |-> sseData,
                   hasData |-> hasData]
             ELSE [out |-> <<given>>, handled |-> handlerErr, err |-> "nil",
                   sse |-> [sse EXCEPT !.Event = <<>>], data |-> <<>>,
                   hasData |-> FALSE]

\* streamSSE, oauth.go:627-658: one turn of the loop
streamSSE(line, handlerErr) ==
    /\ decoder = "streamSSE"
    /\ IF line = <<>>
       THEN LET pe == processEvent(handlerErr)
            IN  /\ out' = pe.out
                /\ handled' = pe.handled
                /\ sse' = pe.sse
                /\ sseData' = pe.data
                /\ hasData' = pe.hasData
                /\ IF pe.err # "nil" THEN Returns(pe.err) ELSE GoesOn
       ELSE /\ out' = <<>>
            /\ handled' = "none"
            /\ GoesOn
            /\ IF Len(line) > 6 /\ SubSeq(line, 1, 6) = S_event \o <<":">>
               THEN /\ sse' = [sse EXCEPT
                                  !.Event = TrimBoth(SubSeq(line, 7, Len(line)))]
                    /\ UNCHANGED <<sseData, hasData>>
               ELSE IF Len(line) > 5 /\ SubSeq(line, 1, 5) = S_data \o <<":">>
               THEN /\ sseData' =
                          (IF sseData # <<>> THEN sseData \o <<"\n">> ELSE sseData)
                             \o TrimBoth(SubSeq(line, 6, Len(line)))
                    /\ hasData' = TRUE
                    /\ UNCHANGED sse
               ELSE IF Len(line) > 3 /\ SubSeq(line, 1, 3) = S_id \o <<":">>
               THEN /\ sse' = [sse EXCEPT
                                  !.ID = TrimBoth(SubSeq(line, 4, Len(line)))]
                    /\ UNCHANGED <<sseData, hasData>>
               ELSE IF Len(line) > 6 /\ SubSeq(line, 1, 6) = S_retry \o <<":">>
               THEN LET retryStr == TrimBoth(SubSeq(line, 7, Len(line)))
                        parsed == Atoi(retryStr)
                    IN  /\ sse' = IF retryStr # <<>> /\ ~parsed.err /\ parsed.n >= 0
                                  THEN [sse EXCEPT !.Retry = parsed.n]
                                  ELSE sse
                        /\ UNCHANGED <<sseData, hasData>>
               ELSE UNCHANGED <<sse, sseData, hasData>>

\* scanner.Scan() returns a line and an SSE loop takes its turn with it;
\* the handler, when the turn calls it, returns nil or an error
Scan(line) ==
    /\ ssePc = "scan"
    /\ scanned < MaxLines
    /\ scanned' = scanned + 1
    /\ \E handlerErr \in HandlerReturns :
          StreamSSE(line, handlerErr) \/ streamSSE(line, handlerErr)
    /\ sseSeen' = IF out' # <<>> THEN NoSeen ELSE See(line)
    /\ UNCHANGED <<decoder, lifecycle, handed>>
    /\ UNCHANGED nonSSE

\* a loop that looks at the error of Body.Read before the handler's
loopResult_ReadErrorFirst(handlerErr, err) ==
    IF err = "EOF" THEN "nil"
    ELSE IF err # "nil" THEN err
    ELSE IF handlerErr # "nil" THEN handlerErr
    ELSE "continue"

\* Stream, stream.go:88-99: what a turn of the loop returns after the
\* handler has returned handlerErr ("nil" too when n = 0 and it was not
\* called) and Body.Read has returned err; "continue" for another turn
loopResult(handlerErr, err) ==
    IF handlerErr # "nil" THEN handlerErr
    ELSE IF err = "nil" THEN "continue"
    ELSE IF err = "EOF" THEN "nil"
    ELSE err

\* Stream, stream.go:85-100: one turn of the loop, Body.Read returning n
\* bytes and err
StreamRead(n, err, handlerErr) ==
    /\ decoder = "Stream"
    /\ ssePc = "scan"
    /\ scanned < MaxLines
    /\ scanned' = scanned + 1
    /\ handed' = IF n > 0 THEN <<n>> ELSE <<>>
    /\ handled' = IF n > 0 THEN handlerErr ELSE "none"
    /\ LET result == loopResult(IF n > 0 THEN handlerErr ELSE "nil", err)
       IN  IF result = "continue" THEN GoesOn ELSE Returns(result)
    /\ UNCHANGED <<decoder, lifecycle, sse, sseData, hasData, out, sseSeen>>
    /\ UNCHANGED nonSSE

\* StreamJSON, oauth.go:443-456: the handler it gives StreamLines; whether
\* it calls the caller's handler with the line, and what it returns
StreamJSON(line, handlerErr) ==
    IF Len(line) = 0 THEN [called |-> FALSE, err |-> "nil"]
    ELSE IF ~ValidJSON(line) THEN [called |-> FALSE, err |-> "json error"]
    ELSE [called |-> TRUE, err |-> handlerErr]

\* StreamLines, stream.go:140-146: one turn of the loop, with the caller's
\* handler or StreamJSON's
StreamLines(line, handlerErr) ==
    /\ decoder \in {"StreamLines", "StreamJSON"}
    /\ ssePc = "scan"
    /\ scanned < MaxLines
    /\ scanned' = scanned + 1
    /\ LET h == IF decoder = "StreamJSON" THEN StreamJSON(line, handlerErr)
                ELSE [called |-> TRUE, err |-> handlerErr]
       IN  /\ handed' = IF h.called THEN <<line>> ELSE <<>>
           /\ handled' = IF h.called THEN handlerErr ELSE "none"
           /\ IF h.err # "nil" THEN Returns(h.err) ELSE GoesOn
    /\ UNCHANGED <<decoder, lifecycle, sse, sseData, hasData, out, sseSeen>>
    /\ UNCHANGED nonSSE

\* scanner.Scan() returns false, the stream is at its end: StreamSSE and
\* StreamLines return scanner.Err() (stream.go:148-151, 354-358); streamSSE
\* calls processEvent and returns its error or scanner.Err()
\* (oauth.go:660-664)
EndOfStream ==
    /\ ssePc = "scan"
    /\ decoder # "Stream"
    /\ \E scanErr \in ScanErrors :
          IF decoder = "streamSSE"
          THEN \E handlerErr \in HandlerReturns :
                  LET pe == processEvent(handlerErr)
                  IN  /\ out' = pe.out
                      /\ handled' = pe.handled
                      /\ sse' = pe.sse
                      /\ sseData' = pe.data
                      /\ hasData' = pe.hasData
                      /\ Returns(IF pe.err # "nil" THEN pe.err ELSE scanErr)
          ELSE /\ out' = <<>>
               /\ handled' = "none"
               /\ Returns(scanErr)
               /\ UNCHANGED <<sse, sseData, hasData>>
    /\ handed' = <<>>
    /\ UNCHANGED <<decoder, lifecycle, scanned, sseSeen>>
    /\ UNCHANGED nonSSE

SSENext ==
    \/ OnOpen
    \/ \E line \in Lines : Scan(line)
    \/ \E n \in 0..1, err \in ReadErrors, handlerErr \in HandlerReturns :
          StreamRead(n, err, handlerErr)
    \/ \E line \in JSONLines, handlerErr \in HandlerReturns :
          StreamLines(line, handlerErr)
    \/ EndOfStream

SSEOff ==
    /\ decoder = "off"
    /\ lifecycle = FALSE
    /\ scanned = 0
    /\ ssePc = "returned"
    /\ sse = NoFields
    /\ sseData = <<>>
    /\ hasData = FALSE
    /\ out = <<>>
    /\ sseSeen = NoSeen
    /\ handed = <<>>
    /\ handled = "none"
    /\ sseRet = "none"
    /\ onClose = FALSE


(* ============ DiskCache.cleanup beside the other operations ============ *)
\* what a step of the DiskCache with its sweep leaves alone
nonDisk == <<bvars, rvars, kvars, hvars, tvars, wvars, evars>>

NoSweep ==
    [pc |-> "idle", todo |-> [k \in Keys |-> NoName], key |-> "",
     removedSize |-> 0, now |-> 0]

\* DiskCache.cleanup, part_020:958-968: the copy of the index, taken under
\* c.indexMutex, and now := time.Now()
DiskSweepBegin ==
    /\ store = "disk"
    /\ sweepCall.pc = "idle"
    /\ DiskInFlight < MaxInFlight
    /\ \E k \in Keys : index[k] # NoName
    /\ sweepCall' = [NoSweep EXCEPT !.pc = "loop", !.todo = index, !.now = now]
    /\ UNCHANGED cvars
    /\ UNCHANGED nonDisk

\* DiskCache.cleanup, part_020:970-986: the next key of the copy; its file
\* is opened and decoded with no lock held. A file that cannot be opened
\* has its key taken out of the index (975-980).
DiskSweepCheck(key) ==
    /\ store = "disk"
    /\ sweepCall.pc = "loop"
    /\ sweepCall.todo[key] # NoName
    /\ LET filename == sweepCall.todo[key]
           file == files[filename]
           cachedResp == Decode(file.bytes)
           rest == [sweepCall.todo EXCEPT ![key] = NoName]
           idx == [index EXCEPT ![key] = NoName]
       IN  IF ~file.exists
           THEN /\ index' = idx
                /\ getCall' = Disturb(getCall, {key} \cup Lost(idx, files))
                /\ DiskHistory(idx, files, {key})
                /\ sweepCall' = [sweepCall EXCEPT !.todo = rest]
           ELSE /\ sweepCall' =
                      IF ~Decodes(file.bytes) \/ sweepCall.now > cachedResp.ExpiresAt
                      THEN [sweepCall EXCEPT !.pc = "remove", !.key = key]
                      ELSE [sweepCall EXCEPT !.todo = rest]
                /\ UNCHANGED <<index, getCall, stored, intact>>
    /\ UNCHANGED <<store, now, capacity, data, lruList, elements, heap, got,
                   files, setCall, delCall, currentSize, maxDiskSize,
                   interrupted, recent, cev>>
    /\ UNCHANGED nonDisk

\* DiskCache.cleanup, part_020:988-999: the file found expired or
\* undecodable is measured and removed by its path, and the key is taken
\* out of the index
DiskSweepRemove ==
    /\ store = "disk"
    /\ sweepCall.pc = "remove"
    /\ LET key == sweepCall.key
           filename == sweepCall.todo[key]
           file == files[filename]
           fs == [files EXCEPT ![filename] = NoFile]
           idx == [index EXCEPT ![key] = NoName]
       IN  /\ files' = fs
           /\ index' = idx
           /\ getCall' = Disturb(getCall, {key} \cup Lost(idx, fs))
           /\ DiskHistory(idx, fs, {key})
           /\ sweepCall' = [sweepCall EXCEPT
                               !.pc = "loop",
                               !.key = "",
                               !.todo = [@ EXCEPT ![key] = NoName],
                               !.removedSize =
                                   IF file.exists THEN @ + FileSize(file) ELSE @]
    /\ UNCHANGED <<store, now, capacity, data, lruList, elements, heap, got,
                   setCall, delCall, currentSize, maxDiskSize, interrupted,
                   recent, cev>>
    /\ UNCHANGED nonDisk

\* DiskCache.cleanup, part_020:1004-1012: the loop is over; currentSize is
\* brought down under c.mutex, which a Set holds from its start to its end
DiskSweepEnd ==
    /\ store = "disk"
    /\ sweepCall.pc = "loop"
    /\ \A k \in Keys : sweepCall.todo[k] = NoName
    /\ sweepCall.removedSize > 0 => setCall.pc = "idle"
    /\ currentSize' = IF sweepCall.removedSize > 0
                      THEN (IF currentSize - sweepCall.removedSize < 0 THEN 0
                            ELSE currentSize - sweepCall.removedSize)
                      ELSE currentSize
    /\ sweepCall' = NoSweep
    /\ UNCHANGED <<store, now, capacity, data, lruList, elements, heap,
                   getCall, got, index, files, setCall, delCall, maxDiskSize,
                   interrupted, stored, intact, recent, cev>>
    /\ UNCHANGED nonDisk

DiskNext ==
    \/ ClockTick
    \/ \E p \in CacheCallers, key \in DiskKeys : DiskGetRead(p, key)
    \/ \E p \in CacheCallers : DiskGetLocked(p)
    \/ \E key \in DiskKeys, response \in CachedResponses :
          DiskSetBegin(key, response)
    \/ DiskSetEncode
    \/ DiskSetRename
    \/ DiskSetFinish
    \/ \E key \in DiskKeys : DiskDelete(key)
    \/ DiskDeleteRemove
    \/ DiskClear
    \/ DiskSweepBegin
    \/ \E key \in Keys : DiskSweepCheck(key)
    \/ DiskSweepRemove
    \/ DiskSweepEnd

DiskSweepOff == sweepCall = NoSweep

(* ========================= the specifications ========================== *)
\* the two circuit breakers under concurrent callers
InitBreaker == BreakerInit /\ RetryOff /\ BackoffOff /\ ChainOff /\ CacheOff /\ SweepOff /\ MwOff /\ SSEOff /\ DiskSweepOff

SpecBreaker == InitBreaker /\ [][BreakerNext]_vars

\* one request through the retry middleware
InitRetry ==
    (RetryInit \/ ClientRetryInit) /\ BreakerOff /\ BackoffOff /\ ChainOff /\ CacheOff /\ SweepOff /\ MwOff /\ SSEOff /\ DiskSweepOff

SpecRetry == InitRetry /\ [][RetryNext]_vars

\* one backoff computation
InitBackoff == BackoffInit /\ BreakerOff /\ RetryOff /\ ChainOff /\ CacheOff /\ SweepOff /\ MwOff /\ SSEOff /\ DiskSweepOff

SpecBackoff == InitBackoff /\ [][BackoffNext]_vars

\* one request through the middleware chain
InitChain == ChainInit /\ BreakerOff /\ RetryOff /\ BackoffOff /\ CacheOff /\ SweepOff /\ MwOff /\ SSEOff /\ DiskSweepOff

SpecChain == InitChain /\ [][ChainNext]_vars

\* the cache stores under concurrent callers
InitCache == CacheInit /\ BreakerOff /\ RetryOff /\ BackoffOff /\ ChainOff /\ SweepOff /\ MwOff /\ SSEOff /\ DiskSweepOff

SpecCache == InitCache /\ [][CacheNext]_vars

\* a cache store with its cleanup task
InitSweep ==
    SweepInit /\ BreakerOff /\ RetryOff /\ BackoffOff /\ ChainOff /\ CacheOff /\ MwOff /\ SSEOff /\ DiskSweepOff

SpecSweep == InitSweep /\ [][SweepNext]_vars

\* requests through the cache middleware
InitMw ==
    MwInit /\ BreakerOff /\ RetryOff /\ BackoffOff /\ ChainOff /\ CacheOff /\ SweepOff /\ SSEOff /\ DiskSweepOff

SpecMw == InitMw /\ [][MwNext]_vars

\* one stream through an SSE decoder
InitSSE ==
    SSEInit /\ BreakerOff /\ RetryOff /\ BackoffOff /\ ChainOff /\ CacheOff /\ SweepOff /\ MwOff /\ DiskSweepOff

SpecSSE == InitSSE /\ [][SSENext]_vars

\* the DiskCache with the steps of its sweep among those of its callers
InitDisk ==
    DiskCacheInit /\ DiskSweepOff /\ BreakerOff /\ RetryOff /\ BackoffOff /\ ChainOff /\ SweepOff /\ MwOff /\ SSEOff

SpecDisk == InitDisk /\ [][DiskNext]_vars

(* ============================ the claims =============================== *)
State == IF impl = "pkg" THEN cb.state ELSE mcb.state

\* the consecutive-failure counter
Failures == IF impl = "pkg" THEN cb.failureCount ELSE mcb.consecutiveErrors

\* the half-open probe counter
Probes == IF impl = "pkg" THEN cb.halfOpenCount ELSE mcb.halfOpenCalls

\* C1: while the breaker is HalfOpen, the calls admitted since it entered
\* HalfOpen, the call that made the Open -> HalfOpen transition included,
\* number at most HalfOpenMaxCalls.
C1_HalfOpenBudget ==
    State = StateHalfOpen => hoAdmitted <= config.HalfOpenMaxCalls

\* C2: a success recorded while HalfOpen, for a call that was admitted in
\* HalfOpen, leaves the breaker Closed.
C2_HalfOpenSuccessCloses ==
    (ev.op = "record" /\ ~ev.res /\ ev.from = StateHalfOpen
        /\ ev.adm = StateHalfOpen) => State = StateClosed

\* C3: while Closed (and no operation is inside the breaker, holding its
\* lock) the counter is the number of failures recorded since the last
\* success; the breaker goes from Closed to Open in exactly the steps
\* that record the FailureThreshold-th such failure; a success recorded while
\* Closed sets the counter to 0.
C3_ThresholdOpens ==
    /\ (State = StateClosed /\ mutex = "free") =>
          (Failures = streak /\ streak < config.FailureThreshold)
    /\ (ev.from = StateClosed /\ State = StateOpen) =>
          (ev.op = "record" /\ ev.res /\ streak = config.FailureThreshold)
    /\ (ev.op = "record" /\ ev.from = StateClosed /\ ev.res
          /\ streak >= config.FailureThreshold) => State = StateOpen
    /\ (ev.op = "record" /\ ev.from = StateClosed /\ ~ev.res) =>
          (State = StateClosed /\ Failures = 0)

C3_Witness ==
    /\ ev.op = "record" /\ ev.from = StateClosed /\ State = StateOpen
    /\ config.FailureThreshold > 1
    /\ streak = config.FailureThreshold

\* C4: no call is admitted at a moment when the breaker is Open and
\* RecoveryTimeout has not elapsed since the last recorded failure.
C4_OpenRejects ==
    ev.op = "admit" => ~(ev.from = StateOpen /\ ~Elapsed)

\* C5: a failure recorded while HalfOpen leaves the breaker Open, and a call
\* that arrives after it is admitted only when RecoveryTimeout has elapsed
\* since that failure (a Reset() in between, which closes the breaker by
\* hand, set aside).
C5_ReopenRejects ==
    /\ (ev.op = "record" /\ ev.res /\ ev.from = StateHalfOpen) =>
          State = StateOpen
    /\ (ev.op = "admit" /\ ev.late /\ ~resetSince) =>
          Since(reopenedAt) >= config.RecoveryTimeout

\* C6: the observer is never called by a goroutine that holds the breaker's
\* mutex, and no guarded call is left blocked by an observer that re-enters
\* the breaker.
C6_ObserverOutsideLock ==
    ~obsUnderLock /\ \A c \in Callers : calls[c].pc # "blocked"

\* C7: with an observer set, the notifications it has received are those of
\* the state changes made, one each and in the order the changes were made.
C7_NotificationsInOrder ==
    config.observer # "none" => inOrder

\* C8: Reset() returns leaving the breaker Closed with both counters 0 and
\* its lock released, so that the call that arrives next is admitted: a call
\* that finds the breaker Closed is never rejected, whatever the time since
\* the last failure.
C8_ResetCloses ==
    /\ ev.op = "reset" =>
          (State = StateClosed /\ Failures = 0 /\ Probes = 0 /\ mutex = "free")
    /\ ev.op = "reject" => ev.seen # StateClosed

\* C9: when the result of the first attempt is not retryable (a status that
\* is not in retryableStatusCodes, or an error that errorPredicate refuses),
\* the middleware returns that result: the wrapped handler has been called
\* once, no backoff wait is made and no further attempt is sent.
C9_NonRetryableReturnsAtOnce ==
    (/\ nextCalls = 1
     /\ ~Retryable(rconfig, first)
     /\ first.err # "nil" => rconfig.ErrorPredicate # "nil") =>
        /\ rpc = "done"
        /\ ret = first
        /\ waits = 0
        /\ doCalls = 0

\* C10: every retry goes through the wrapped handler of the first attempt;
\* when every attempt returned a retryable result and the attempts are used
\* up, the wrapped handler has been called 1 + MaxRetries times.
C10_RetriesThroughHandler ==
    /\ rimpl = "middleware" => doCalls = 0
    /\ (rpc = "done" /\ rexit = "exhausted" /\ allRetryable) =>
           nextCalls = 1 + rconfig.MaxRetries

\* the attempts made so far, the first one and the retries
attemptsMade == nextCalls + doCalls

\* C11: the result of an attempt is treated as retryable exactly when its
\* error satisfies errorPredicate or its status is in retryableStatusCodes:
\* Handle does not return the result of an attempt, first or retry, that is
\* retryable while attempts remain (a retry answered 408 is retried), and it
\* does not wait for another attempt after a retry that is not retryable
\* (for the first attempt that half is C9).
C11_ClassifiedEveryAttempt ==
    rimpl = "middleware" =>
        /\ (rpc = "done" /\ rexit \in {"first", "retry"}
              /\ attemptsMade <= rconfig.MaxRetries) =>
                 ~Retryable(rconfig, last)
        /\ (rpc = "wait" /\ doCalls > 0) => Retryable(rconfig, last)

\* C12: when the context is done while the executor waits between two
\* attempts, the executor's next step is to return the context's error, and
\* it makes no further attempt (both executors).
C12_CancelledWaitReturnsCtxErr ==
    [][(rpc = "wait" /\ rctx.done) =>
          (/\ rpc' = "done"
           /\ ret'.err = "ctx"
           /\ attemptsMade' = attemptsMade)]_vars

C12_Witness ==
    /\ rpc = "done" /\ rexit = "cancelled" /\ ret.err = "ctx"
    /\ last.err # "ctx" /\ attemptsMade <= rconfig.MaxRetries

\* C13: with a maxDelay set, the delay computed for a wait is at most
\* maxDelay, for every attempt number and every jitter draw (the exponential
\* delays of both executors).
C13_DelayAtMostMax ==
    (/\ waited.done
     /\ backoff.config.MaxDelay > 0
     /\ backoff.config.impl = "client" => backoff.config.Exponential) =>
        waited.delay <= backoff.config.MaxDelay

\* C14: for a request with a body and no GetBody, no retry is sent: one
\* attempt is made and, unless the context ends the wait, its result is what
\* the executor returns; and no attempt is ever sent with a body that an
\* earlier attempt has read.
C14_NoRetryWithoutBodyFactory ==
    /\ bodySent # "spent"
    /\ (rreq.hasBody /\ ~rreq.hasGetBody) =>
          /\ attemptsMade <= 1
          /\ (rpc = "done" /\ rexit # "cancelled") => ret = first

\* C15: once every permitted attempt has been made (the first one and
\* MaxRetries retries), what the executor returns is the (response, error)
\* pair of the last attempt, whether or not that result is retryable: not
\* the result of an earlier attempt and not an error made by the executor.
C15_ReturnsLastAttempt ==
    (rpc = "done" /\ attemptsMade = 1 + rconfig.MaxRetries) =>
        /\ ret = last
        /\ ret.err \in {"nil"} \cup TransportErrors

C15_Witness ==
    /\ rimpl = "middleware" /\ rpc = "done" /\ rexit = "exhausted"
    /\ rconfig.MaxRetries >= 1 /\ attemptsMade = 1 + rconfig.MaxRetries
    /\ Retryable(rconfig, last) /\ first # last /\ ret = last

\* the steps of a call through the middlewares m, in onion order
RECURSIVE OnionOrder(_)
OnionOrder(m) ==
    IF m = <<>>
    THEN << <<"base", 0>> >>
    ELSE << <<"request", Head(m)>> >> \o OnionOrder(Tail(m))
            \o << <<"response", Head(m)>> >>

\* C16: a call of the handler Chain built runs the request-side steps of the
\* middlewares in list order (the client's, then the request's), the
\* terminal handler once, and the response-side steps in reverse order.
C16_OnionOrder ==
    chainPc = "done" =>
        trace = OnionOrder(middlewares.client \o middlewares.request)

C16_Witness ==
    /\ chainPc = "done"
    /\ Len(trace) = 7
    /\ trace[1] = <<"request", 1>> /\ trace[2] = <<"request", 2>>
    /\ trace[3] = <<"request", 3>> /\ trace[4] = <<"base", 0>>
    /\ trace[7] = <<"response", 1>>

\* what a Get of the key finds in the store: the entry the map leads to,
\* or the entry decoded from the file the index leads to
StoredEntry(k) ==
    IF store = "memory"
    THEN (IF data[k] = 0 THEN NoObject ELSE heap[elements[data[k]].response])
    ELSE IF /\ index[k] # NoName
            /\ files[index[k]].exists
            /\ Decodes(files[index[k]].bytes)
         THEN Decode(files[index[k]].bytes)
         ELSE NoObject

\* C17: what a caller writes to an entry that a Get returned to it changes
\* no entry of the store, so that later Gets return what they would have.
C17_CallerWritesLeaveStore ==
    [][(\E p \in CacheCallers, field \in Mutations : CallerWrites(p, field))
          => \A k \in Keys : StoredEntry(k)' = StoredEntry(k)]_vars

\* the step in which the Get of caller p returns from its locked section
GetReturns(p) ==
    /\ getCall[p].pc = "locked"
    /\ getCall'[p].pc = "idle"
    /\ cev'.op = "get"

\* the store has an entry under the key
Holds(k) == IF store = "memory" THEN data[k] # 0 ELSE index[k] # NoName

Held == {k \in Keys : data[k] # 0}

C20_InterruptedSetLeavesPrevious ==
    [][\A p \in CacheCallers, key \in interrupted :
          (/\ store = "disk"
           /\ GetReturns(p)
           /\ getCall[p].key = key
           /\ cev'.found)
              => /\ stored[key] # NoObject
                 /\ cev'.entry = [StatusCode |-> stored[key].StatusCode,
                                  Body |-> stored[key].Body]]_vars


\* C21: when the directory of a DiskCache is opened again, the rebuilt index
\* holds exactly the entries that are neither expired nor undecodable, each
\* under the key it was stored with by Set, and the files of the expired
\* entries are gone.
C21_ReopenRebuildsIndex ==
    [][Restart =>
          /\ \A k \in DiskKeys :
                index'[k] = IF Kept(k, files) /\ ~(now > stored[k].ExpiresAt)
                            THEN keyToFilename(k) ELSE NoName
          /\ \A n \in Filenames :
                (/\ HasCacheSuffix(n)
                 /\ files[n].exists
                 /\ Decodes(files[n].bytes)
                 /\ now > Decode(files[n].bytes).ExpiresAt)
                    => ~files'[n].exists]_vars


\* the entries evictOldEntries can remove: those of the index whose file is
\* there and decodes
Evictable ==
    {k \in Keys : /\ index[k] # NoName
                  /\ files[index[k]].exists
                  /\ Decodes(files[index[k]].bytes)}

\* the keys a step takes out of the index
Evicted == {k \in Keys : index[k] # NoName /\ index'[k] = NoName}

lastUsed(k) == Decode(files[index[k]].bytes).LastAccessed

\* C22: when a DiskCache.Set would push currentSize over maxDiskSize, the
\* entries it removes come in ascending LastAccessed order and no more of
\* them are removed than the new entry needs to fit; when removing them all
\* does not make room the Set returns an error and stores nothing; a Set
\* that fits removes nothing.
C22_EvictsOldestUntilFits ==
    [][\A key \in DiskKeys, response \in CachedResponses :
          DiskSetBegin(key, response) =>
             LET needed == estimatedSize(response)
                 over == maxDiskSize > 0 /\ currentSize + needed > maxDiskSize
                 failed == setCall'.pc = "idle"
                 rest(r) == {index[q] : q \in Evicted \ {r}}
             IN  /\ ~over => Evicted = {} /\ ~failed
                 /\ over =>
                      /\ Evicted \subseteq Evictable
                      /\ \A r \in Evicted, k \in Evictable \ Evicted :
                            lastUsed(r) <= lastUsed(k)
                      /\ \/ Evicted = {}
                         \/ \E r \in Evicted :
                               /\ \A q \in Evicted : lastUsed(q) <= lastUsed(r)
                               /\ currentSize - SumSizes(rest(r)) + needed
                                     > maxDiskSize
                      /\ failed <=>
                            currentSize
                               - SumSizes({index[k] : k \in Evictable})
                               + needed > maxDiskSize
                      /\ failed =>
                            /\ \A k \in Evictable : ~files'[index[k]].exists
                            /\ files'[TempName] = files[TempName]
                            /\ files'[keyToFilename(key)] \in
                                  {files[keyToFilename(key)], NoFile}
                      /\ ~failed => currentSize' + needed <= maxDiskSize]_vars

\* a Set has made room by removing the older of two entries and keeping the
\* newer one
C22_Witness ==
    /\ store = "disk"
    /\ setCall.pc = "temp"
    /\ cev.op = "room"
    /\ cev.evicted = 1
    /\ \E k \in DiskKeys :
          /\ index[k] # NoName
          /\ files[index[k]].exists
          /\ Decode(files[index[k]].bytes).LastAccessed = 1


\* C23: after Close() has returned on a store whose cleanup task was
\* started, the task does not read or modify the store again (and so has
\* come to a stop).
C23_NoSweepAfterClose ==
    [][closed => ~cleanup]_vars


\* the response carries the directive on some line of its Cache-Control
\* header (directives are separated by commas and can be spread over
\* several lines)
Carries(result, directive) ==
    \E i \in 1..Len(result.CacheControl) :
       \E j \in 1..Len(result.CacheControl[i]) :
          TrimSpace(result.CacheControl[i][j]) = directive

\* C24: the cache middleware hands an entry to the store only for a GET or
\* HEAD request whose wrapped handler returned no error and a response of
\* a cacheable status that, when RespectCacheControl is on, carries none of
\* no-store, no-cache and private; for a request of another method a call
\* reads and writes nothing of the store and calls the wrapped handler
\* once.
C24_StoresOnlyCacheable ==
    [][\A p \in Clients, result \in HandlerResults :
          NextReturns(p, result) =>
             /\ handles'[p].spawned = 1 =>
                   /\ handles[p].req.Method \in {"GET", "HEAD"}
                   /\ ~result.err
                   /\ result.StatusCode \in {200, 203, 204, 206, 300, 301, 404, 410}
                   /\ mwConfig.RespectCacheControl =>
                         \A d \in {"no-store", "no-cache", "private"} :
                            ~Carries(result, d)
             /\ handles[p].req.Method \notin {"GET", "HEAD"} =>
                   /\ handles'[p].gets = 0
                   /\ handles'[p].spawned = 0
                   /\ handles'[p].nexts = 1
                   /\ mwCache' = mwCache]_vars

\* C25: a request whose key has a fresh entry in the store when its call
\* begins is answered from the store: the wrapped handler is not called and
\* the caller reads the stored status and the stored body.
C25_FreshEntryAnswers ==
    [][\A p \in Clients :
          (ReadAll(p) /\ handles[p].fresh # NoResponse) =>
             /\ handles[p].nexts = 0
             /\ responses[handles[p].resp] = handles[p].fresh]_vars


\* C26: when the stream ends while an event with at least one data line is
\* pending, no blank line having closed it, the decoder hands that event to
\* the handler exactly once before it returns.
C26_EndDispatchesPending ==
    [][(EndOfStream /\ sseSeen.dataValues # <<>>) => Len(out') = 1]_vars

\* C27: a dispatch after which the decoding goes on (the handler returned
\* nil) leaves event, data, id and retry blank for the next event, and a
\* dispatched event carries no id and no retry but those its own lines set.
C27_DispatchResetsFields ==
    [][out' # <<>> =>
          /\ handled' = "nil" => (sse' = NoFields /\ sseData' = <<>>)
          /\ "id" \notin sseSeen.fields => out'[1].ID = <<>>
          /\ "retry" \notin sseSeen.fields => out'[1].Retry = 0]_vars

\* C28: an event whose retry lines all hold a missing, non-numeric or
\* negative value is dispatched with retry 0, and such a line does not end
\* the decoding.
C28_InvalidRetryIsZero ==
    [][/\ (out' # <<>> /\ "retry" \in sseSeen.fields /\ ~sseSeen.validRetry)
             => out'[1].Retry = 0
       /\ \A line \in Lines :
             (Scan(line) /\ FieldOf(line) = S_retry) => ssePc' = "scan"]_vars

\* C29: an event dispatched without an event line read for it has the type
\* "message".
C29_DefaultTypeIsMessage ==
    [][(out' # <<>> /\ "event" \notin sseSeen.fields)
          => out'[1].Event = S_message]_vars

\* C30: a blank line that follows one data line of empty value dispatches
\* exactly one event, whose data is the empty string.
C30_EmptyDataDispatches ==
    [][(Scan(<<>>) /\ sseSeen.dataValues = <<<<>>>>)
          => (Len(out') = 1 /\ out'[1].Data = <<>>)]_vars


\* the values of the data lines of one event, joined with single newlines
RECURSIVE JoinLines(_)
JoinLines(values) ==
    IF values = <<>> THEN <<>>
    ELSE IF Len(values) = 1 THEN values[1]
    ELSE values[1] \o <<"\n">> \o JoinLines(Tail(values))

\* C31: a blank line that closes a block holding data lines dispatches
\* exactly one event, and its data is the values of those lines, in the
\* order read, joined with single newlines.
C31_DataLinesJoined ==
    [][(Scan(<<>>) /\ sseSeen.dataValues # <<>>)
          => (Len(out') = 1 /\ out'[1].Data = JoinLines(sseSeen.dataValues))]_vars


\* C32: in every decoder (chunks, lines, NDJSON, SSE), a step in which the
\* handler returns an error e makes the decoder return e, and a decoder
\* that has returned takes no further step, so the handler is not called
\* again.
C32_HandlerErrorStops ==
    [][/\ ssePc # "returned"
       /\ handled' \notin {"none", "nil"}
             => (ssePc' = "returned" /\ sseRet' = handled')]_vars

C32_Witness ==
    /\ ssePc = "returned"
    /\ handled = "e2"
    /\ sseRet = "e2"
    /\ scanned > 1
    /\ decoder = "StreamJSON"


\* C33: a call that finds the breaker Open when RecoveryTimeout has elapsed
\* since the last recorded failure is not rejected, whatever results that
\* are not failures were recorded in between; the call that is admitted
\* from Open leaves the breaker HalfOpen with the probe counter 0.
C33_RecoveryAdmits ==
    /\ (ev.op = "reject" /\ ev.from = StateOpen /\ ev.seen = StateOpen)
          => ~Elapsed
    /\ (ev.op = "admit" /\ ev.from = StateOpen /\ ev.seen = StateOpen)
          => (State = StateHalfOpen /\ Probes = 0)


\* C34: a step the executor takes when the caller's context is done issues
\* no attempt, neither through the wrapped handler nor through client.Do,
\* the first attempt included, and returns the context's error.
C34_NoAttemptAfterDone ==
    [][(rctx.done /\ rpc # "done")
          => /\ nextCalls' = nextCalls
             /\ doCalls' = doCalls
             /\ rpc' = "done"
             /\ ret'.err = "ctx"]_vars


\* C35: in MemoryCache the key map and the recency list hold the same keys,
\* each once: every list element is the one the map has for its key, and
\* every map entry is an element of the list.
C35_MapAndListAgree ==
    store = "memory" =>
        /\ \A i, j \in 1..Len(lruList) : lruList[i] = lruList[j] => i = j
        /\ \A i \in 1..Len(lruList) : data[elements[lruList[i]].key] = lruList[i]
        /\ \A k \in Keys : data[k] # 0 => data[k] \in Range(lruList)


\* C36: the sweep of the DiskCache removes no file that holds an unexpired
\* entry at the moment of the removal; the entry a Set of the same key has
\* put in place while the sweep ran stays where a Get finds it.
C36_SweepRemovesOnlyExpired ==
    [][DiskSweepRemove =>
          LET file == files[sweepCall.todo[sweepCall.key]]
          IN  (file.exists /\ Decodes(file.bytes))
                 => now > Decode(file.bytes).ExpiresAt]_vars


\* C37: when no Set, Delete or sweep of the DiskCache is under way, index
\* and files agree for every key: either the key is not in the index and
\* has no file, or it is in the index and its file is there and holds a
\* complete entry.
C37_IndexAndFilesAgree ==
    (store = "disk" /\ setCall.pc = "idle" /\ delCall.pc = "idle"
        /\ sweepCall.pc = "idle") =>
        \A k \in DiskKeys :
            IF index[k] = NoName
            THEN ~files[keyToFilename(k)].exists
            ELSE files[index[k]].exists /\ Decodes(files[index[k]].bytes)


\* C38: when no operation of the DiskCache is under way, currentSize is the
\* total size of the files the index leads to.
C38_CurrentSizeIsSumOfFiles ==
    (store = "disk" /\ setCall.pc = "idle" /\ DiskInFlight = 0) =>
        currentSize = SumSizes({index[k] : k \in {q \in Keys : index[q] # NoName}})


\* C39: a DiskCache.Set that returns the error of evictOldEntries leaves the
\* index, the files and currentSize as they were before the call.
C39_FailedSetChangesNothing ==
    [][\A key \in DiskKeys, response \in CachedResponses :
          (DiskSetBegin(key, response) /\ cev'.op = "nospace") =>
             /\ index' = index
             /\ files' = files
             /\ currentSize' = currentSize]_vars


====
